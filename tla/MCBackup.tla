------------------------------ MODULE MCBackup ------------------------------
EXTENDS Backup
CONSTANTS a, none
Ids == {a}
\* A result that -i and -z reset.
Bad == [checksum |-> 1, usertime |-> 0, overflow |-> 1, mxoffset |-> 0]
Results == {Bad}
Known == {1}
\* Always -f and -c, with the options that reset tasks one by one and together.
RepairOptions == {{"f", "c"} \cup o : o \in {{}, {"m", "i"}, {"z", "r"}}}
=============================================================================
