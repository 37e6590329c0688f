---------------------------------- MODULE MCTeams ----------------------------------
EXTENDS Teams, TLC

CONSTANTS u1, u2, u3, u4, a1, a2, a3, a4

Reading == {"get_team", "list_teams", "list_members", "list_invitations", "my_invitations",
            "list_memos", "list_own_memos", "get_memo"}
Memos == {"create_memo", "create_own_memo", "delete_memo", "delete_own_memo"}
Inviting == {"create_team", "invite", "accept", "decline", "leave", "my_invitations"}

OneSlug == CHOOSE slug \in Slug : TRUE

\* Everybody's email in lower case; u4 is no user yet in most scenarios, and a4
\* nobody's email.
AddressOf == u1 :> a1 @@ u2 :> a2 @@ u3 :> a3 @@ u4 :> a4
Most == User \ {u4}
EmailsOf(S) == [u \in User |-> IF u \in S THEN <<AddressOf[u], LowerCase>> ELSE NoEmail]

\* One request at a time, of which a command is refused: those that found and
\* end teams, in two teams; and all that change anything, in one.
Founding ==
    [overlap |-> FALSE, refusals |-> TRUE, expiry |-> FALSE,
     operations |-> {"create_team", "update_team", "delete_team", "create_memo",
                     "delete_memo", "delete_own_memo"},
     teams |-> 2, memos |-> 1, invitations |-> 0, slugs |-> Slug, gives |-> Given,
     emails |-> EmailsOf(Most), addresses |-> Address \ {a4}, held |-> 0, deletions |-> FALSE]
OneTeam ==
    [overlap |-> FALSE, refusals |-> TRUE, expiry |-> TRUE, operations |-> Operations \ (Reading \cup Memos),
     teams |-> 1, memos |-> 0, invitations |-> 1, slugs |-> {OneSlug}, gives |-> Given,
     emails |-> EmailsOf(Most), addresses |-> Address \ {a4}, held |-> 0, deletions |-> FALSE]

\* One request at a time: in two teams; and memos and their listings, in one.
TwoTeams ==
    [overlap |-> FALSE, refusals |-> FALSE, expiry |-> FALSE,
     operations |-> {"create_team", "update_team", "delete_team", "transfer", "invite",
                     "accept", "cancel", "list_teams", "list_invitations", "my_invitations"},
     teams |-> 2, memos |-> 0, invitations |-> 1, slugs |-> Slug, gives |-> {"member"},
     emails |-> EmailsOf(Most), addresses |-> Address \ {a4}, held |-> 0, deletions |-> FALSE]
Library ==
    [overlap |-> FALSE, refusals |-> FALSE, expiry |-> FALSE,
     operations |-> {"create_team", "delete_team", "invite", "accept", "leave"}
                      \cup Memos \cup Reading,
     teams |-> 1, memos |-> 2, invitations |-> 1, slugs |-> {OneSlug}, gives |-> {"member"},
     emails |-> EmailsOf(Most), addresses |-> Address \ {a4}, held |-> 0, deletions |-> FALSE]

\* One request at a time, while users register, change their emails, and go;
\* and more users than seats, with a refused command.
Renaming ==
    [overlap |-> FALSE, refusals |-> FALSE, expiry |-> FALSE, operations |-> Inviting,
     teams |-> 1, memos |-> 0, invitations |-> 2, slugs |-> {OneSlug}, gives |-> {"member"},
     emails |-> EmailsOf({u1, u2}), addresses |-> Address \ {a4}, held |-> 3, deletions |-> TRUE]
Filling ==
    [overlap |-> FALSE, refusals |-> TRUE, expiry |-> TRUE, operations |-> Inviting,
     teams |-> 1, memos |-> 0, invitations |-> 2, slugs |-> {OneSlug}, gives |-> {"member"},
     emails |-> EmailsOf(User), addresses |-> Address, held |-> 0, deletions |-> FALSE]

\* Overlapping requests: to join and to end a team; to rise and fall in one; and
\* to crowd into it.
Joining ==
    [overlap |-> TRUE, refusals |-> FALSE, expiry |-> FALSE,
     operations |-> {"create_team", "update_team", "delete_team", "invite", "accept", "leave"},
     teams |-> 1, memos |-> 0, invitations |-> 2, slugs |-> {OneSlug}, gives |-> {"member"},
     emails |-> EmailsOf(Most), addresses |-> Address \ {a4}, held |-> 0, deletions |-> FALSE]
Rising ==
    [overlap |-> TRUE, refusals |-> FALSE, expiry |-> FALSE,
     operations |-> {"create_team", "delete_team", "transfer", "invite", "accept", "remove_member"},
     teams |-> 1, memos |-> 0, invitations |-> 1, slugs |-> {OneSlug}, gives |-> {"member"},
     emails |-> EmailsOf({u1, u2}), addresses |-> {a1, a2}, held |-> 0, deletions |-> FALSE]
Crowding ==
    [overlap |-> TRUE, refusals |-> FALSE, expiry |-> FALSE,
     operations |-> {"create_team", "invite", "accept"},
     teams |-> 1, memos |-> 0, invitations |-> 3, slugs |-> {OneSlug}, gives |-> {"member"},
     emails |-> EmailsOf(User), addresses |-> Address, held |-> 0, deletions |-> FALSE]

MCScenario == {Founding, OneTeam, TwoTeams, Library, Renaming, Filling, Joining, Rising, Crowding}

\* One request at a time, and none refused, in one team.
Quiet == [OneTeam EXCEPT !.refusals = FALSE]
SelfScenario == {Quiet}
CrowdScenario == {Crowding}

MCPages == {<<0, 1>>, <<2, 1>>, <<1, 11>>}

\* Most users are alike, each with her address, and so are the slots of requests
\* and the ids of invitations.
WithAddresses(p) ==
    p @@ [a \in {AddressOf[u] : u \in Most} |->
            AddressOf[p[CHOOSE u \in Most : AddressOf[u] = a]]]
Symmetry ==
    {WithAddresses(p) : p \in Permutations(Most)} \cup Permutations(Call)
      \cup Permutations(Invitation)
===============================================================================
