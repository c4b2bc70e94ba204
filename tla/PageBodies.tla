----------------------------- MODULE PageBodies -----------------------------
(***************************************************************************)
(* Pages, and the bodies of requests that carry them: the columns head,    *)
(* html, css and js of a challenge or a room.  A body may leave columns    *)
(* out.  What is stored then keeps the columns left out; what is drawn has *)
(* the word "undefined" in their place, so that the picture of a body is   *)
(* represented by the body itself.                                         *)
(***************************************************************************)
CONSTANTS
    Columns,    \* the columns that are drawn
    Texts,      \* what a column can hold
    Blank,      \* what it holds by default
    Undefined   \* a column left out

ASSUME PageBodiesAssumption == Blank \in Texts /\ Undefined \notin Texts

Pages == [Columns -> Texts]
Bodies == [Columns -> Texts \cup {Undefined}]

\* A row whose columns have never been written.
BlankPage == [c \in Columns |-> Blank]

IsWhole(body) == \A c \in Columns : body[c] # Undefined

\* Prisma writes the columns that are defined.
Merge(body, page) ==
    [c \in Columns |-> IF body[c] = Undefined THEN page[c] ELSE body[c]]
=============================================================================
