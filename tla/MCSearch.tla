------------------------------ MODULE MCSearch ------------------------------
(***************************************************************************)
(* Search with few chunks: one with an embedding in each of two models,    *)
(* one that may have been written and not been refreshed yet, and one of   *)
(* another document, with another tag and a later time.                    *)
(***************************************************************************)
EXTENDS Search

CONSTANTS d1, d2, m1, m2

MCChunk(document, index, model, tag_id, status, created_at) ==
    [document |-> document, index |-> index, model |-> model, text |-> 1,
     tag_id |-> tag_id, document_status |-> status, created_at |-> created_at]

MCMade ==
    {MCChunk(d1, 1, m1, 1, 1, 1), MCChunk(d1, 1, m1, 0, 0, 1), MCChunk(d1, 1, m2, 1, 1, 1),
     MCChunk(d1, 2, m1, 1, 1, 1), MCChunk(d2, 1, m1, 2, 2, 2)}

MCNone == [tag_ids |-> {}, document_ids |-> {}, statuses |-> {},
           created_after |-> 0, created_before |-> 0]

\* No filter, one member, and two that few chunks pass.
MCAsked ==
    {MCNone,
     [MCNone EXCEPT !.tag_ids = {1}], [MCNone EXCEPT !.document_ids = {d1}],
     [MCNone EXCEPT !.statuses = {1, 2}], [MCNone EXCEPT !.created_after = 2],
     [MCNone EXCEPT !.created_before = 1, !.statuses = {2}]}
=============================================================================
