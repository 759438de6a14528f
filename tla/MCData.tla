------------------------------- MODULE MCData -------------------------------
(***************************************************************************)
(* An instance of Data for TLC: two objects, of one type or of two that    *)
(* differ, a byte of four values and a tmp_bufs of twelve bytes.           *)
(***************************************************************************)
EXTENDS Data

CONSTANTS a, b

MCTypes ==
  {[o \in Objects |-> t] : t \in DataTypes}
  \cup {[o \in Objects |-> IF o = a THEN "STRING" ELSE "BYTE_ARRAY"]}

MCTexts ==
  {Text("dec", n) : n \in {-1, 0, 200}}
  \cup {Text("hex", 20), Text("fix", 6), True, Empty}

MCArrays == {<<>>, <<1>>, <<3, 0>>, <<2, 1, 1, 3>>, Image("INT64", -1)}
=============================================================================
