-------------------------------- MODULE MCAccounts --------------------------------
EXTENDS Accounts, TLC
CONSTANTS u1, e1

\* The sessions of a user.
Sessions ==
    [faults |-> TRUE, operations |-> {"login", "refresh", "logout", "logout_all"},
     registered |-> {<<u1, e1>>}, tokens |-> 2, time |-> TRUE]

\* A user that is read, changed and deleted.
Profiles ==
    [faults |-> TRUE, operations |-> {"get_user", "update_user", "delete_user"},
     registered |-> {<<u1, e1>>}, tokens |-> 0, time |-> TRUE]

\* Users that want the same email.
Conflicts ==
    [faults |-> FALSE, operations |-> {"register", "update_user", "delete_user"},
     registered |-> {<<u1, e1>>}, tokens |-> 1, time |-> FALSE]

MCScenario == {Sessions, Profiles, Conflicts}
===============================================================================
