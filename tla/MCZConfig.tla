----------------------------- MODULE MCZConfig -----------------------------
(***************************************************************************)
(* Two files, each with a key of its own; the first may refer to the       *)
(* second's.  Operators touch the files twice.  One goroutine watches a    *)
(* key, another reads the first one.                                       *)
(***************************************************************************)
EXTENDS ZConfig

CONSTANTS f1, f2, u1, u2

MCSources == <<f1, f2>>
MCContents ==
    f1 :> {"a" :> Number(1), "a" :> Number(2), "a" :> Placeholder("b", 7)}
    @@ f2 :> {"b" :> Number(1), "b" :> Number(2)}
MCUsers == {u1, u2}
MCAsks == {<<u1, "watch", "a">>, <<u1, "watch", "b">>, <<u2, "value", "a">>}
============================================================================
