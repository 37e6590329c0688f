------------------------ MODULE MCTranscriptionPipeline ------------------------
EXTENDS TranscriptionPipeline, TLC
CONSTANTS u1, u2, t1, m1
MCOwner == [m \in Memo |-> u1]
MCPrivate == [m \in Memo |-> NoTeam]
\* One memo is private, the others belong to a team.
MCTeamOf == [m \in Memo |-> IF m = m1 THEN t1 ELSE NoTeam]
\* Agents are interchangeable, and so are workers of the same processor.
Symmetry == Permutations(Request) \cup Permutations(Worker) \cup Permutations(Timer)
===============================================================================
