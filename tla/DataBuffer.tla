----------------------------- MODULE DataBuffer -----------------------------
(***************************************************************************)
(* LATRDBuffer: points are collected until they fill a frame, which gets   *)
(* the next frame number of this process.                                  *)
(*                                                                         *)
(* A buffer is a value here: the operation that fills it gives what it     *)
(* then holds, and the frame that leaves it is told apart.  Points are     *)
(* elements of a sequence.  The zeros that pad the last frame are left     *)
(* out.  No append brings more points than a frame has: the code would     *)
(* copy what is left over past the end of the memory.                      *)
(***************************************************************************)
EXTENDS Integers, Sequences

Buffer(size) ==
  [size |-> size, points |-> <<>>, number |-> 0, processes |-> 1, rank |-> 0]

(* The frames that leave a buffer: one or none.                              *)
Retrieved(b) ==
  IF b.points = <<>> THEN <<>>
  ELSE <<[number |-> b.rank + b.number * b.processes, points |-> b.points]>>

AfterRetrieve(b) ==
  IF b.points = <<>> THEN b ELSE [b EXCEPT !.points = <<>>, !.number = @ + 1]

Free(b) == b.size - Len(b.points)
Holds(b, data) == Len(data) < Free(b)
Filled(b, data) == [b EXCEPT !.points = @ \o SubSeq(data, 1, Free(b))]

AppendedFrames(b, data) == IF Holds(b, data) THEN <<>> ELSE Retrieved(Filled(b, data))

Rest(b, data) == SubSeq(data, Free(b) + 1, Len(data))

AfterAppend(b, data) ==
  IF Holds(b, data)
  THEN [b EXCEPT !.points = @ \o data]
  ELSE [AfterRetrieve(Filled(b, data)) EXCEPT !.points = Rest(b, data)]

ForProcess(b, processes, rank) == [b EXCEPT !.processes = processes, !.rank = rank]
NumberReset(b) == [b EXCEPT !.number = 0]
=============================================================================
