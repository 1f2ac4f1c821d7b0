----------------------------- MODULE MCViewport -----------------------------
(* A viewport over two short documents, whose diffs are written out: from    *)
(* A to B a line is replaced, one inserted and one stays.                    *)
EXTENDS Viewport, TLC

MCTexts == {"a", "b", "c", "d"}
A == <<"a", "b">>
B == <<"c", "d", "b">>
MCSources == {A, B}

MCTerms == {"term"}
MCContains == [t \in MCTerms |-> {"a", "b", "c"}]

E(index) == [kind |-> "equal", index |-> index]
D(index) == [kind |-> "delete", index |-> index]
I(index) == [kind |-> "insert", index |-> index]

MCScript ==
    <<A, A>> :> <<E(1), E(2)>> @@ <<B, B>> :> <<E(1), E(2), E(3)>> @@
    <<A, B>> :> <<D(1), I(1), I(2), E(3)>> @@ <<B, A>> :> <<D(1), D(2), I(1), E(2)>>

R(before, after) == [before |-> before, after |-> after]

MCRows ==
    <<A, A>> :> R(<<1, 2>>, <<1, 2>>) @@ <<B, B>> :> R(<<1, 2, 3>>, <<1, 2, 3>>) @@
    <<A, B>> :> R(<<1, 0, 4>>, <<2, 3, 4>>) @@ <<B, A>> :> R(<<1, 2, 4>>, <<3, 0, 4>>)

=============================================================================
