------------------------------ MODULE MCNyaml ------------------------------
(* nyaml view over one or two short files, with a search to begin with.  A session  *)
(* picks themes, searches or scrolls.  The letter searched for may be of two *)
(* bytes, of which backspace leaves one.                                     *)
EXTENDS MCViewport, Nyaml

Byte == <<3>>
TwoBytes == <<1, 2>>
MCTyped == {Byte, TwoBytes}

MCNoTerm == <<>>
MCByteTerms == UNION {[1 .. n -> {1, 2, 3}] : n \in 1 .. 2}
MCFound ==
    [t \in MCByteTerms |->
        IF t = Byte THEN {"a", "b", "c"} ELSE IF t = TwoBytes THEN {"d"} ELSE {}]

MCSizes == {[width |-> 20, height |-> 4], [width |-> 20, height |-> 48]}

Session(files, pressed) == [files |-> files, search |-> Byte, keys |-> pressed]
MCSessions ==
    { Session(<<A>>, {"t", "j", "k", "enter", "esc"}),
      Session(<<A, B>>, {"t", "enter", "esc", "w", "v"}),
      Session(<<A, B>>, {"/", "enter", "esc", "backspace", "n", "N", "tab", "m", "v", "wheel"}),
      Session(<<A, B>>, {"g", "G", "f", "b", "d", "u", "j", "k", "tab", "shift+tab", "m", "v", "w"}) }
=============================================================================
