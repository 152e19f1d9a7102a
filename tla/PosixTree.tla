------------------------------ MODULE PosixTree ------------------------------
(* What a program expects of the directories of a volume: a set of entries,   *)
(* each with its path from the root, its kind, and whether it is the working  *)
(* directory ("here").  A call that fails changes nothing.                    *)
(*                                                                            *)
(* What a call may do is a relation between the entries before it, t, and     *)
(* after it, u.                                                               *)
EXTENDS Naturals, Sequences

CONSTANT Names \* the components that calls add

VARIABLES tree, \* the entries
          res   \* what the last call returned

Entry(p, k, h) == [path |-> p, kind |-> k, here |-> h]
Root(h) == Entry(<<>>, "dir", h)
Paths(t) == {e.path : e \in t}
Dirs(t) == {e.path : e \in {x \in t : x.kind = "dir"}}
New(t) == {Append(d, n) : d \in Dirs(t), n \in Names} \ Paths(t)

Below(p, q) == Len(q) >= Len(p) /\ SubSeq(q, 1, Len(p)) = p

Init == tree = {Root(TRUE)} /\ res = "ok"

Make(t, u) == \E p \in New(t), k \in {"dir", "file"} : u = t \union {Entry(p, k, FALSE)}

(* What is removed is neither a directory with something in it nor the        *)
(* working directory.                                                         *)
Remove(t, u) ==
    \E e \in t \ {Root(FALSE)} :
        u = t \ {e} /\ ~e.here /\ \A p \in Paths(u) : ~Below(e.path, p)

(* A directory is moved with all that is in it, and with the program if that  *)
(* is in it.                                                                  *)
Move(t, u) ==
    \E p \in Paths(t) \ Paths(u), q \in New(t) \intersect Paths(u) :
        LET Moved(r) == IF Below(p, r) THEN q \o SubSeq(r, Len(p) + 1, Len(r)) ELSE r
        IN  ~Below(p, q) /\ u = {[e EXCEPT !.path = Moved(@)] : e \in t}

Chdir(t, u) == \E p \in Dirs(t) : u = {[e EXCEPT !.here = (e.path = p)] : e \in t}

Call(t, u) == Make(t, u) \/ Remove(t, u) \/ Move(t, u) \/ Chdir(t, u)

Next ==
    \/ res' = "ok" /\ \E t \in {tree}, u \in {tree'} : Call(t, u)
    \/ res' = "fail" /\ UNCHANGED tree

Spec == Init /\ [][Next]_<<tree, res>>
=============================================================================
