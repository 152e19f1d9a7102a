------------------------------ MODULE PosixFile ------------------------------
(* What a program expects of its files, whatever they are stored on: each is  *)
(* a sequence of bytes, and an open file has a position in it.                *)
EXTENDS Integers, Sequences

CONSTANTS Files,
          Lengths,    \* the lengths of reads and writes
          Byte(_, _), \* what the program writes at an offset of a file
          Zero        \* what is in a file where nothing was written

VARIABLES bytes, \* of each file, open or not
          pos,   \* the position in each file, or -1
          out,   \* what the last read returned
          full   \* whether there is room for more

vars == <<bytes, pos, out, full>>

Smaller(a, b) == IF a < b THEN a ELSE b

(* The bytes of file f from the start to offset n, with zeros past its end.   *)
Upto(f, n) == [i \in 1..n |-> IF i <= Len(bytes[f]) THEN bytes[f][i] ELSE Zero]

(* The file once m bytes have been written from offset p.                     *)
Overlaid(f, p, m) ==
    [i \in 1..(IF p + m > Len(bytes[f]) THEN p + m ELSE Len(bytes[f])) |->
        IF p < i /\ i <= p + m THEN Byte(f, i - 1)
        ELSE IF i <= Len(bytes[f]) THEN bytes[f][i] ELSE Zero]

Init ==
    /\ bytes = [f \in Files |-> <<>>]
    /\ pos = [f \in Files |-> -1]
    /\ out = <<>>
    /\ full \in BOOLEAN

Open(f) ==
    /\ pos[f] = -1 /\ pos' = [pos EXCEPT ![f] = 0]
    /\ bytes' \in {bytes, [bytes EXCEPT ![f] = <<>>]}
    /\ out' = <<>>

Close(f) ==
    /\ pos[f] # -1 /\ pos' = [pos EXCEPT ![f] = -1]
    /\ UNCHANGED bytes /\ out' = <<>>

Seek(f) ==
    /\ pos[f] # -1 /\ pos'[f] \in Nat
    /\ pos' = [pos EXCEPT ![f] = pos'[f]]
    /\ UNCHANGED bytes /\ out' = <<>>

(* A read returns what is at the position, up to the end of the file.         *)
Read(f, n) ==
    /\ pos[f] # -1
    /\ out' = SubSeq(bytes[f], pos[f] + 1, Smaller(pos[f] + n, Len(bytes[f])))
    /\ pos' = [pos EXCEPT ![f] = @ + Len(out')]
    /\ UNCHANGED bytes

(* A write at the position, or at the end, is done in full unless there is no *)
(* more room.                                                                 *)
Write(f, n) ==
    /\ pos[f] # -1
    /\ \E m \in 0..n :
        /\ m < n => full'
        /\ \/ /\ bytes' = [bytes EXCEPT ![f] = Overlaid(f, pos[f], m)]
              /\ pos' = [pos EXCEPT ![f] = @ + m]
           \/ /\ bytes' = [bytes EXCEPT ![f] = Overlaid(f, Len(@), m)]
              /\ UNCHANGED pos
    /\ out' = <<>>

Truncate(f) ==
    /\ pos[f] # -1
    /\ bytes' = [bytes EXCEPT ![f] = Upto(f, Len(bytes'[f]))]
    /\ UNCHANGED pos /\ out' = <<>>

Next == \E f \in Files :
    \/ Open(f) \/ Close(f) \/ Seek(f) \/ Truncate(f)
    \/ \E n \in Lengths : Read(f, n) \/ Write(f, n)

Spec == Init /\ [][Next]_vars
=============================================================================
