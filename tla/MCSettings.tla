------------------------------ MODULE MCSettings ------------------------------
EXTENDS Settings
CONSTANTS kagamid, gen, nobody

\* Files of the legacy format, with the switch on and off, alone and with the keys it
\* implies; a file of the removed mode; those of today with only some of their keys, one of
\* which kept the switch. A patch may lower the version.
MCDocuments ==
    {[hidexattr |-> TRUE, stealth |-> FALSE, debug |-> TRUE], [hidexattr |-> FALSE, selinux |-> TRUE],
     [version |-> TRUE, hidexattr |-> TRUE], [stealth |-> FALSE], [version |-> TRUE, maps |-> TRUE, mode |-> TRUE]}
MCPatches ==
    {[debug |-> FALSE], [mount |-> FALSE, version |-> TRUE], [stealth |-> FALSE, version |-> TRUE],
     [selinux |-> TRUE], [hidexattr |-> TRUE], [version |-> FALSE], [mode |-> FALSE]}
===============================================================================
