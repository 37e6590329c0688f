---------------------------------- MODULE Pages ----------------------------------
(***************************************************************************)
(* Paging, as every listing of the API does it: ?page= and ?limit= of the  *)
(* request, brought into range, select a part of a list sorted newest      *)
(* first.                                                                  *)
(***************************************************************************)
EXTENDS Integers, Sequences

MaxLimit == 10

ClampPage(page) == IF page < 1 THEN 1 ELSE page
ClampLimit(limit) == IF limit < 1 \/ limit > MaxLimit THEN MaxLimit ELSE limit

TotalPages(total, limit) == total \div limit + (IF total % limit > 0 THEN 1 ELSE 0)

\* Mutant: pages counted from zero.
PageFromZero(list, page, limit) ==
    LET skip == page * limit
    IN  SubSeq(list, skip + 1, IF skip + limit < Len(list) THEN skip + limit ELSE Len(list))

\* $skip and $limit.
PageOf(list, page, limit) ==
    LET skip == (page - 1) * limit
    IN  SubSeq(list, skip + 1, IF skip + limit < Len(list) THEN skip + limit ELSE Len(list))
===============================================================================
