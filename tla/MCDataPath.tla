----------------------------- MODULE MCDataPath ------------------------------
(* DataPath with a few layouts for TLC: bytes of two bits, images of two
   bytes, two streams. *)
EXTENDS DataPath

At(byte, bit, len) == [byte |-> byte, bit |-> bit, len |-> len]
Link(from, to, out1, in1, out2, in2) ==
    [from |-> from, to |-> to,
     outputs |-> IF from = "slave" THEN {out1, out2} ELSE {},
     inputs |-> IF to = "slave" THEN {in1, in2} ELSE {},
     streams |-> <<[out |-> out1, in |-> in1], [out |-> out2, in |-> in2]>>]

\* Fields that cross a byte boundary, share a byte, fill a byte, and one that
\* leaves the image of the master.  The last one asks a slave for an input that
\* is none of its variables and lies across two of them.
SmallLayouts ==
    { Link("slave", "slave", At(0, 0, 2), At(0, 1, 2), At(1, 1, 1), At(0, 0, 1)),
      Link("slave", "slave", At(0, 1, 2), At(0, 0, 2), At(1, 1, 1), At(1, 1, 1)),
      Link("slave", "slave", At(0, 0, 3), At(0, 1, 3), At(1, 1, 1), At(0, 0, 1)),
      Link("slave", "master", At(0, 1, 2), At(0, 0, 2), At(1, 1, 1), At(1, 0, 1)),
      Link("master", "slave", At(0, 0, 2), At(1, 0, 2), At(1, 0, 1), At(0, 1, 1)),
      Link("master", "slave", At(1, 0, 3), At(0, 1, 3), At(0, 0, 1), At(0, 0, 1)),
      [Link("slave", "slave", At(0, 0, 2), At(0, 1, 2), At(1, 0, 2), At(1, 0, 2))
          EXCEPT !.inputs = {At(0, 0, 2), At(1, 0, 2)}] }

\* The temperature and the valve of the demo have a link of their own.
ShortFrames == { Link("slave", "master", At(0, 0, 2), At(0, 0, 2), At(1, 0, 2), At(1, 0, 2)) }

\* Both sets of layouts are what an application may ask for.
ASSUME /\ SameLength /\ OneProducer /\ InputsFit
       /\ VariablesApart /\ MasterAtBytes /\ MasterBytesApart
==============================================================================
