-------------------------------- MODULE Data --------------------------------
(***************************************************************************)
(* cplus_data (data.c): an object of a fixed type that is written and read *)
(* as any other type.  One caller uses the objects; what can go wrong is a *)
(* conversion, a buffer whose recorded size is not its size, and the spin  *)
(* lock of the object, which its own caller may find taken.  In a function *)
(* e is the object with the lock that its branch takes, u the same object  *)
(* once the lock is released: a path says which of them it returns.  Every *)
(* C function is an operator from the object to the set of its outcomes    *)
(* [ret, d, v, kept]: what it returns, the object after it, what it gave   *)
(* the caller, and whether the object now holds the value it was given.    *)
(***************************************************************************)
EXTENDS DataTypes

CONSTANTS
  Objects,          \* the objects
  Converted,        \* the objects that are used; the others are cloned from
  TypeChoices,      \* functions from objects to their types, one per behaviour
  KeyedTypes,       \* types of the objects that are given keys
  MallocFails,      \* whether an allocation may fail
  TmpSize,          \* the 256 bytes of tmp_bufs in cplus_data_get_as_string
  Caps,             \* sizes of the buffers that callers offer to a getter
  Texts,            \* texts given to a string, Arrays: bytes given to an array
  Arrays

VARIABLES
  obj,              \* struct data of each object
  stopped,          \* how a call ended instead of returning, or "no"
  wrote,            \* the number each object was last given and as which type
  marred            \* what happened to each object's buffer before (history)

vars == <<obj, stopped, wrote, marred>>

Null == -1
Stops == {"hang", "null", "overread", "overwrite"}
Nothing == [as |-> "none", h |-> 0]

\* Types whose value is copied under the spin lock, not by one atomic access.
Slow == {"INT64", "UINT64", "FLOAT", "DOUBLE"}
AllButNull == ScalarTypes \cup BufferTypes

\* Mutant: data_initialize_object starts an object as valid.
Fresh_valid(t) ==
  [type |-> t, live |-> TRUE, valid |-> TRUE, num |-> 0, text |-> NoText, cells |-> <<>>,
   len |-> 0, alloc |-> Null, size |-> 0, lock |-> FALSE, key |-> Null, key_len |-> 0]

Fresh(t) ==
  [type |-> t, live |-> TRUE, valid |-> FALSE, num |-> 0, text |-> NoText, cells |-> <<>>,
   len |-> 0, alloc |-> Null, size |-> 0, lock |-> FALSE, key |-> Null, key_len |-> 0]
Absent(t) == [Fresh(t) EXCEPT !.live = FALSE]

Outcome(how, d, v, kept) == [ret |-> how, d |-> d, v |-> v, kept |-> kept]
Failed(d) == Outcome("FAIL", d, 0, FALSE)
Stop(how, d) == Outcome(how, d, 0, FALSE)
Got(d, v) == Outcome("SUCCESS", d, v, FALSE)
Stored(d, n) == Outcome("SUCCESS", [d EXCEPT !.num = n, !.valid = TRUE], 0, TRUE)

\* DATA_SPIN_LOCK in the branches of the given types, and DATA_SPIN_UNLOCK: the
\* caller spins for ever on a lock that was never released.
Taken(d, types) == IF d.type \in types THEN [d EXCEPT !.lock = TRUE] ELSE d
Released(d, types) == IF d.type \in types THEN [d EXCEPT !.lock = FALSE] ELSE d
Spin(d, types, outcomes) ==
  IF d.type \in types /\ d.lock THEN {Stop("hang", d)} ELSE outcomes

\* cplus_malloc and cplus_realloc: of nothing, some builds give a block.
Allocate(n) == {n} \cup (IF MallocFails \/ n = 0 THEN {Null} ELSE {})

---------------------------------------------------------------------------
\* Buffers

\* Mutant: no room is allocated for the terminator.
SetString_unterminated(e, n, x) ==
  LET grows == e.alloc = Null \/ n + 1 > e.len
      len == IF grows THEN n + 1 ELSE e.len
      text == IF x = NoText THEN Empty ELSE Cut(x, len)
  IN {IF a = Null
      THEN Failed([e EXCEPT !.len = len, !.alloc = Null, !.text = NoText, !.lock = FALSE])
      ELSE Outcome("SUCCESS", [e EXCEPT !.len = len, !.alloc = a, !.text = text, !.valid = TRUE,
                                        !.lock = FALSE],
                   0, text = x)
      : a \in IF grows THEN Allocate(n) ELSE {e.alloc}}

\* The string branch of cplus_data_set_value, which the set_as functions repeat;
\* both its ends release the lock that was taken.
SetString(e, n, x) ==
  LET grows == e.alloc = Null \/ n + 1 > e.len
      len == IF grows THEN n + 1 ELSE e.len
      text == IF x = NoText THEN Empty ELSE Cut(x, len)
  IN {IF a = Null
      THEN Failed([e EXCEPT !.len = len, !.alloc = Null, !.text = NoText, !.lock = FALSE])
      ELSE Outcome("SUCCESS", [e EXCEPT !.len = len, !.alloc = a, !.text = text, !.valid = TRUE,
                                        !.lock = FALSE],
                   0, text = x)
      : a \in IF grows THEN Allocate(n + 1) ELSE {e.alloc}}

\* The byte array branch, likewise: bufs_size is the old length when that is enough.
SetBytes(e, n, cells, text) ==
  LET grows == e.alloc = Null \/ n > e.len
      size == IF grows THEN n ELSE e.len
      new == [e EXCEPT !.len = n, !.size = size, !.lock = FALSE]
  IN {IF a = Null
      THEN Failed([new EXCEPT !.alloc = Null, !.cells = <<>>, !.text = NoText])
      ELSE Outcome("SUCCESS",
                   [new EXCEPT !.alloc = a, !.cells = SubSeq(cells, 1, n), !.text = text, !.valid = TRUE],
                   0, TRUE)
      : a \in IF grows THEN Allocate(n) ELSE {e.alloc}}

\* The first n characters of a text, and its terminator, as bytes.
Chars(x, n) == [i \in 1..n |-> IF i <= TextLen(x) THEN Radix ELSE 0]

\* A call that goes on after the setter it used, unless that never returns: what
\* it then returns, the object valid.
After(outcomes, Result(_)) ==
  {IF r.ret \in Stops THEN r ELSE [r EXCEPT !.ret = Result(r), !.d.valid = TRUE] : r \in outcomes}
Ignore(outcomes) == After(outcomes, LAMBDA r : "SUCCESS")

\* Reading the text of a string to its end.
WithText(d, Use(_)) ==
  CASE d.alloc = Null -> {Stop("null", d)}
    [] d.text.form = "open" -> {Stop("overread", d)}
    [] OTHER -> Use(d.text)

Least(a, b) == IF a < b THEN a ELSE b

\* The first n of the bytes c; those that were never set are arbitrary.
Fill(c, n) == {[i \in 1..n |-> IF i <= Len(c) THEN c[i] ELSE b] : b \in {0, Radix - 1}}

\* Copying an array over a scalar of the caller, whose other bytes stay.
Overlay(d, s) == {Got(d, FromImage(s, c)) : c \in Fill(d.cells, Size[s])}

\* The stored scalar; a bool that was overwritten byte-wise may read as 1.
Scalar(d) == IF d.type = "BOOL" /\ d.num > 1 THEN {1, d.num} ELSE {d.num}

---------------------------------------------------------------------------
\* cplus_data_get_value, cplus_data_set_value and the functions around them

Argument(num, n, text, cells) == [num |-> num, n |-> n, text |-> text, cells |-> cells]

cplus_data_set_value(d, arg) ==
  LET T == Slow \cup BufferTypes  e == Taken(d, T)  u == Released(e, T)
  IN Spin(d, T,
       CASE d.type = "NULL" -> {Failed(d)}
         [] d.type = "STRING" -> SetString(e, arg.n, arg.text)
         [] d.type = "BYTE_ARRAY" -> SetBytes(e, arg.n, arg.cells, arg.text)
         [] OTHER -> {Stored(u, arg.num)})

\* Mutant: the failed copy of a string returns without unlocking, too.
get_value_locked(d, cap) ==
  LET T == Slow \cup BufferTypes  e == Taken(d, T)  u == Released(e, T)
  IN Spin(d, T,
       CASE d.type = "NULL" -> {Failed(d)}
         [] d.type = "STRING" ->
              WithText(e, LAMBDA x : {IF cap < TextLen(x) + 1 THEN Failed(e) ELSE Got(u, x)})
         [] d.type = "BYTE_ARRAY" -> {IF cap < d.len THEN Failed(u) ELSE Got(u, d.cells)}
         [] OTHER -> {Got(u, n) : n \in Scalar(d)})

\* The failed copy of an array returns without unlocking.
cplus_data_get_value(d, cap) ==
  LET T == Slow \cup BufferTypes  e == Taken(d, T)  u == Released(e, T)
  IN Spin(d, T,
       CASE d.type = "NULL" -> {Failed(d)}
         [] d.type = "STRING" ->
              WithText(e, LAMBDA x : {IF cap < TextLen(x) + 1 THEN Failed(u) ELSE Got(u, x)})
         [] d.type = "BYTE_ARRAY" ->
              {CASE cap < d.len -> Failed(u)
                 [] cap >= d.len /\ (d.alloc = Null \/ d.len = 0) -> Failed(e)
                 [] OTHER -> Got(u, d.cells)}
         [] OTHER -> {Got(u, n) : n \in Scalar(d)})

cplus_data_get_data_size(d) ==
  LET e == Taken(d, BufferTypes)  u == Released(e, BufferTypes)
  IN Spin(d, BufferTypes,
       CASE d.type = "NULL" -> {Got(d, 0)}
         [] d.type = "STRING" -> WithText(e, LAMBDA x : {Got(u, TextLen(x))})
         [] d.type = "BYTE_ARRAY" -> {Got(u, d.len)}
         [] OTHER -> {Got(d, Size[d.type])})

\* The copy is as long as the destination, whatever the source holds.
cplus_data_clone_value(d, s) ==
  LET grows == IF d.type = "STRING" THEN s.len > d.len ELSE s.size > d.size
      space == IF d.type = "STRING" THEN s.len ELSE s.size
      bytes(e) == IF d.type = "STRING" THEN 0 ELSE e.len
      Copied(e) ==
        CASE s.alloc = Null \/ e.len = 0 ->
               {Got([e EXCEPT !.cells = c], 0) : c \in Fill(e.cells, bytes(e))}
          [] s.alloc # Null /\ e.len > s.alloc -> {Stop("overread", e)}
          [] OTHER -> {Outcome("SUCCESS", [e EXCEPT !.text = s.text, !.cells = c], 0,
                               d.type = "STRING" \/ e.len >= s.len)
                       : c \in Fill(s.cells, bytes(e))}
  IN CASE d.type # s.type -> {Failed(d)}
       [] d.type = s.type /\ d.type \notin BufferTypes ->
            {Outcome("SUCCESS", [d EXCEPT !.num = s.num], 0, TRUE)}
       [] d.type = s.type /\ d.type \in BufferTypes /\ ~grows ->
            IF d.alloc = Null THEN {Got(d, 0)} ELSE Copied(d)
       [] OTHER ->
            UNION {IF a = Null
                   THEN {Failed([d EXCEPT !.alloc = Null, !.cells = <<>>, !.text = NoText])}
                   ELSE Copied([d EXCEPT !.alloc = a, !.len = s.len, !.size = s.size])
                   : a \in IF d.alloc = Null THEN {Null} ELSE Allocate(space)}

cplus_data_set_key(d, n) ==
  LET u == Released(Taken(d, DataTypes), DataTypes)
  IN Spin(d, DataTypes,
       IF n + 1 <= d.key_len
       THEN {Got([u EXCEPT !.key = IF @ = Null THEN Null ELSE n], 0)}
       ELSE {IF a = Null
             THEN Failed([u EXCEPT !.key_len = n + 1, !.key = Null])
             ELSE Got([u EXCEPT !.key_len = n + 1, !.key = n], 0)
             : a \in Allocate(n + 1)})

\* The constructors: a value or a key that cannot be set deletes the object.
data_initialize_object(d, arg, key) ==
  LET Keyed(r) == IF r.ret = "SUCCESS" /\ key > 0
                  THEN {[r EXCEPT !.ret = k.ret, !.d = k.d] : k \in cplus_data_set_key(r.d, key)}
                  ELSE {r}
  IN (UNION {{IF k.ret = "FAIL" THEN Failed(Absent(d.type)) ELSE k : k \in Keyed(r)}
             : r \in cplus_data_set_value(Fresh(d.type), arg)})
     \cup (IF MallocFails THEN {Failed(Absent(d.type))} ELSE {})

cplus_data_delete(d) == {Got(Absent(d.type), 0)}

cplus_data_is_valid(d) == d.live /\ d.type # "NULL" /\ d.valid

---------------------------------------------------------------------------
\* Reading as another type

cplus_data_get_as_bool(d) ==
  LET T == Slow \cup BufferTypes  u == Released(Taken(d, T), T)
  IN Spin(d, T,
       CASE d.type = "NULL" -> {Failed(d)}
         [] d.type = "STRING" ->
              {IF d.alloc # Null /\ d.text \in {True, False}
               THEN Got(u, IF d.text = True THEN 1 ELSE 0) ELSE Failed(u)}
         [] d.type = "BYTE_ARRAY" ->
              {IF d.alloc = Null \/ d.len = 0 THEN Failed(u)
               ELSE Got(u, IF d.cells[1] > 0 THEN 1 ELSE 0)}
         [] OTHER -> {Got(u, IF d.num # 0 THEN 1 ELSE 0)})

\* The eight integer getters, which differ in the type and the sscanf format.
GetAsInt(d, s, fmt) ==
  LET T == Slow \cup BufferTypes  e == Taken(d, T)  u == Released(e, T)
  IN Spin(d, T,
       CASE d.type = "NULL" -> {Failed(d)}
         [] d.type = "STRING" ->
              WithText(e, LAMBDA x : IF ScanInt(fmt, x) = {} THEN {Failed(u)}
                                     ELSE {Got(u, Wrap(s, n)) : n \in ScanInt(fmt, x)})
         [] d.type = "BYTE_ARRAY" -> Overlay(u, s)
         [] OTHER -> UNION {{Got(u, n) : n \in Cast(s, d.type, v)} : v \in Scalar(d)})

cplus_data_get_as_int8(d) == GetAsInt(d, "INT8", "%d")
cplus_data_get_as_int16(d) == GetAsInt(d, "INT16", "%d")
cplus_data_get_as_int32(d) == GetAsInt(d, "INT32", "%d")
\* Mutant: the format of the shorter types.
get_as_int64_short(d) == GetAsInt(d, "INT64", "%d")

cplus_data_get_as_int64(d) == GetAsInt(d, "INT64", "%ld")
cplus_data_get_as_uint8(d) == GetAsInt(d, "UINT8", "%u")
cplus_data_get_as_uint16(d) == GetAsInt(d, "UINT16", "%u")
cplus_data_get_as_uint32(d) == GetAsInt(d, "UINT32", "%u")
cplus_data_get_as_uint64(d) == GetAsInt(d, "UINT64", "%lu")

GetAsFloat(d, s) ==
  LET e == Taken(d, AllButNull)  u == Released(e, AllButNull)
  IN Spin(d, AllButNull,
       CASE d.type = "NULL" -> {Failed(d)}
         [] d.type = "STRING" ->
              WithText(e, LAMBDA x : IF ScanFloat(s, x) = {} THEN {Failed(u)}
                                     ELSE {Got(u, h) : h \in ScanFloat(s, x)})
         [] d.type = "BYTE_ARRAY" -> Overlay(u, s)
         [] OTHER -> UNION {{Got(u, h) : h \in Cast(s, d.type, v)} : v \in Scalar(d)})

cplus_data_get_as_float(d) == GetAsFloat(d, "FLOAT")
cplus_data_get_as_double(d) == GetAsFloat(d, "DOUBLE")

\* A number or a string goes through tmp_bufs; an array loses its last byte,
\* and an empty one the byte before the caller's buffer plus 2^32.
cplus_data_get_as_string(d, cap) ==
  LET e == Taken(d, AllButNull)  u == Released(e, AllButNull)
      Through(x) ==
        {IF cap < TextLen(x) + 1 THEN Failed(u) ELSE Got(u, Cut(Cut(x, TmpSize), cap))}
  IN Spin(d, AllButNull,
       CASE d.type = "NULL" -> {Failed(d)}
         [] d.type = "STRING" /\ d.alloc = Null -> Through(Text("raw", 6))
         [] d.type = "STRING" /\ d.alloc # Null -> WithText(e, Through)
         [] d.type = "BYTE_ARRAY" ->
              {CASE cap < d.len + 1 -> Failed(u)
                 [] cap >= d.len + 1 /\ d.len = 0 -> Stop("overwrite", e)
                 [] OTHER -> Got(u, Cut(d.text, d.len))}
         [] OTHER -> Through(Printed(d.type, d.num)))

cplus_data_get_as_byte_array(d, cap) ==
  LET u == Released(Taken(d, AllButNull), AllButNull)
      Bytes(c) == {Got(u, SubSeq(c, 1, Least(Len(c), cap)))}
  IN IF cap = 0 THEN {Failed(d)}
     ELSE Spin(d, AllButNull,
            CASE d.type = "NULL" -> {Failed(d)}
              [] d.type = "STRING" -> Bytes(Chars(d.text, d.len))
              [] d.type = "BYTE_ARRAY" -> Bytes(d.cells)
              [] OTHER -> Bytes(Image(d.type, d.num)))

---------------------------------------------------------------------------
\* Writing as another type

\* The setters of a scalar of type s, which take the lock for the types T: the
\* string branch checks its allocation; the array branch calls
\* cplus_data_set_byte_array, which takes the lock again, and ignores its result.
SetAs(d, T, s, v) ==
  LET e == Taken(d, T)  u == Released(e, T)
  IN Spin(d, T,
       CASE d.type = "NULL" -> {Failed(u)}
         [] d.type = "STRING" -> SetString(e, TextLen(Printed(s, v)), Printed(s, v))
         [] d.type = "BYTE_ARRAY" ->
              Ignore(cplus_data_set_value(e, Argument(0, Size[s], NoText, Image(s, v))))
         [] OTHER -> {Stored(u, n) : n \in Cast(d.type, s, v)})

\* A bool is given to a string through cplus_data_set_string.
cplus_data_set_as_bool(d, v) ==
  LET x == Printed("BOOL", v)
  IN IF d.type = "STRING"
     THEN Ignore(cplus_data_set_value(d, Argument(0, TextLen(x), x, <<>>)))
     ELSE SetAs(d, Slow, "BOOL", v)

SetAsInt(d, s, v) == SetAs(d, {"BOOL", "STRING"} \cup Slow, s, v)

cplus_data_set_as_int8(d, v) == SetAsInt(d, "INT8", v)
cplus_data_set_as_int16(d, v) == SetAsInt(d, "INT16", v)
cplus_data_set_as_int32(d, v) == SetAsInt(d, "INT32", v)
cplus_data_set_as_int64(d, v) == SetAsInt(d, "INT64", v)
cplus_data_set_as_uint8(d, v) == SetAsInt(d, "UINT8", v)
cplus_data_set_as_uint16(d, v) == SetAsInt(d, "UINT16", v)
cplus_data_set_as_uint32(d, v) == SetAsInt(d, "UINT32", v)
cplus_data_set_as_uint64(d, v) == SetAsInt(d, "UINT64", v)

cplus_data_set_as_float(d, v) == SetAs(d, AllButNull \ {"BYTE_ARRAY"}, "FLOAT", v)

\* These two hold the lock while they call cplus_data_set_byte_array.
cplus_data_set_as_double(d, v) == SetAs(d, DataTypes, "DOUBLE", v)
cplus_data_set_as_pointer(d, v) == SetAs(d, DataTypes, "POINTER", v)

\* What a text is parsed to by an object of type t, if it is.
Parsed(t, x) ==
  CASE t = "BOOL" -> IF x = True THEN {1} ELSE IF x = False THEN {0} ELSE {}
    [] t = "INT64" -> ScanInt("%ld", x)
    [] t = "UINT64" -> ScanInt("%lu", x)
    [] t \in {"INT8", "INT16", "INT32"} -> {Wrap(t, n) : n \in ScanInt("%d", x)}
    [] t \in {"UINT8", "UINT16", "UINT32"} -> {Wrap(t, n) : n \in ScanInt("%u", x)}
    [] t \in FloatTypes -> ScanFloat(t, x)
    [] t = "POINTER" -> ScanPointer(x)

\* Returns CPLUS_FAIL for every type but a string, parsed or not, and marks
\* the object valid.
cplus_data_set_as_string(d, n, x) ==
  LET u == Released(Taken(d, ScalarTypes), ScalarTypes)
  IN Spin(d, ScalarTypes,
       CASE d.type = "NULL" -> {Failed(d)}
         [] d.type = "STRING" ->
              After(cplus_data_set_value(d, Argument(0, n, x, <<>>)), LAMBDA r : r.ret)
         [] d.type = "BYTE_ARRAY" ->
              {[r EXCEPT !.kept = FALSE]
               : r \in After(cplus_data_set_value(d, Argument(0, n, x, Chars(x, n))), LAMBDA r : "FAIL")}
         [] OTHER ->
              IF Parsed(d.type, x) = {} THEN {Failed([u EXCEPT !.valid = TRUE])}
              ELSE {[Stored(u, n2) EXCEPT !.ret = "FAIL"] : n2 \in Parsed(d.type, x)})

\* Returns CPLUS_FAIL always.  A string is filled up to its last byte, so
\* that only a zero among the bytes ends it.
cplus_data_set_as_byte_array(d, cells) ==
  LET u == Released(Taken(d, AllButNull), AllButNull)
      zeros == {i \in 1..Least(d.len, Len(cells)) : cells[i] = 0}
      text == IF zeros = {} THEN Text("open", d.len) ELSE Text("raw", Min(zeros) - 1)
      valid == [u EXCEPT !.valid = TRUE]
  IN Spin(d, AllButNull,
       {CASE d.type = "NULL" -> Failed(d)
          [] d.type = "STRING" ->
               IF Len(cells) < d.len + 1 THEN Failed(u)
               ELSE Failed([valid EXCEPT !.text = IF d.alloc = Null THEN @ ELSE text])
          [] d.type = "BYTE_ARRAY" ->
               IF Len(cells) < d.len THEN Failed(u)
               ELSE Failed([valid EXCEPT !.cells = IF d.alloc = Null THEN @ ELSE SubSeq(cells, 1, d.len),
                                         !.text = NoText])
          [] OTHER ->
               IF Len(cells) < Size[d.type] THEN Failed(u)
               ELSE Failed([valid EXCEPT !.num = FromImage(d.type, SubSeq(cells, 1, Size[d.type]))])})

---------------------------------------------------------------------------
\* The caller

Gettable == ScalarTypes \ {"POINTER"}

get_as(s, d) ==
  CASE s = "BOOL" -> cplus_data_get_as_bool(d)
    [] s = "INT8" -> cplus_data_get_as_int8(d)
    [] s = "INT16" -> cplus_data_get_as_int16(d)
    [] s = "INT32" -> cplus_data_get_as_int32(d)
    [] s = "INT64" -> cplus_data_get_as_int64(d)
    [] s = "UINT8" -> cplus_data_get_as_uint8(d)
    [] s = "UINT16" -> cplus_data_get_as_uint16(d)
    [] s = "UINT32" -> cplus_data_get_as_uint32(d)
    [] s = "UINT64" -> cplus_data_get_as_uint64(d)
    [] s = "FLOAT" -> cplus_data_get_as_float(d)
    [] s = "DOUBLE" -> cplus_data_get_as_double(d)

set_as(s, d, v) ==
  CASE s = "BOOL" -> cplus_data_set_as_bool(d, v)
    [] s = "INT8" -> cplus_data_set_as_int8(d, v)
    [] s = "INT16" -> cplus_data_set_as_int16(d, v)
    [] s = "INT32" -> cplus_data_set_as_int32(d, v)
    [] s = "INT64" -> cplus_data_set_as_int64(d, v)
    [] s = "UINT8" -> cplus_data_set_as_uint8(d, v)
    [] s = "UINT16" -> cplus_data_set_as_uint16(d, v)
    [] s = "UINT32" -> cplus_data_set_as_uint32(d, v)
    [] s = "UINT64" -> cplus_data_set_as_uint64(d, v)
    [] s = "FLOAT" -> cplus_data_set_as_float(d, v)
    [] s = "DOUBLE" -> cplus_data_set_as_double(d, v)
    [] s = "POINTER" -> cplus_data_set_as_pointer(d, v)

\* The values that are tried of each type: its limits and small numbers; of a
\* float, numbers with a fraction, shown by six decimals or not, and one that
\* needs rounding.
Samples(s) ==
  CASE s = "BOOL" -> {0, 1}
    [] s \in FloatTypes -> {-6, 0, 1, 3, 4, Nearest(s, 4 * Hi("INT16")), Nearest(s, 4 * Hi("INT32") + 2)}
    [] OTHER -> {Lo(s), 0, 1, Hi(s)} \cup ({-1} \cap Lo(s)..0)

Arguments(t) ==
  CASE t = "STRING" -> {Argument(0, TextLen(x), x, <<>>) : x \in Texts} \cup {Argument(0, 3, NoText, <<>>)}
    [] t = "BYTE_ARRAY" -> {Argument(0, Len(c), NoText, c) : c \in Arrays}
    [] t = "NULL" -> {Argument(0, 0, NoText, <<>>)}
    [] OTHER -> {Argument(v, 0, NoText, <<>>) : v \in Samples(t)}

\* Every object has a type, and every text that is set has a length: the twenty
\* digits that CountDigits allows are enough for the numbers that are tried.
ASSUME DataAssumption ==
  /\ Converted \subseteq Objects
  /\ \A types \in TypeChoices : types \in [Objects -> DataTypes]
  /\ \A x \in Texts : TextLen(x) \in Nat /\ x.n \in Int /\ x.form # "open"
                       /\ (x.form = "fix" => SixDecimals(x.n) = x.n)
  /\ \A s \in ScalarTypes : \A v \in Samples(s) : TextLen(Printed(s, v)) \in Nat
  /\ \A c \in Arrays : Len(c) \in Nat

\* The number a text shows, counted in quarters.
Shown(x) ==
  CASE x.form = "dec" -> [as |-> "STRING", h |-> 4 * x.n]
    [] x.form = "fix" -> [as |-> "STRING", h |-> x.n]
    [] OTHER -> Nothing

\* A call on object o ends with outcome r; w is the number o then holds.
Return(o, r, w) ==
  /\ obj' = [obj EXCEPT ![o] = r.d]
  /\ stopped' = IF r.ret \in Stops THEN r.ret ELSE "no"
  /\ wrote' = [wrote EXCEPT ![o] = w]

Mark(o, what) == marred' = [marred EXCEPT ![o] = @ \cup what]
Lost(o, r) == IF r.d.alloc = Null /\ r.d.type \in BufferTypes THEN {"no memory"} ELSE {}

KeyLengths(o) == IF obj[o].type \in KeyedTypes THEN 1..3 ELSE {}

Given(o, arg, r) ==
  CASE ~r.kept -> Nothing
    [] r.kept /\ obj[o].type \in ScalarTypes ->
         [as |-> obj[o].type, h |-> Quarters(obj[o].type, arg.num)]
    [] OTHER -> Shown(arg.text)

Ready(o) == stopped = "no" /\ obj[o].live

New(o) ==
  /\ stopped = "no" /\ ~obj[o].live
  /\ \/ \E arg \in Arguments(obj[o].type), key \in KeyLengths(o) \cup {0} :
          \E r \in data_initialize_object(obj[o], arg, key) : Return(o, r, Given(o, arg, r))
     \/ Return(o, Got(Fresh(obj[o].type), 0), Nothing)
  /\ marred' = [marred EXCEPT ![o] = {}]

Delete(o) ==
  /\ Ready(o)
  /\ \E r \in cplus_data_delete(obj[o]) : Return(o, r, Nothing)
  /\ marred' = [marred EXCEPT ![o] = {}]

SetValue(o) ==
  /\ Ready(o)
  /\ \E arg \in Arguments(obj[o].type) : \E r \in cplus_data_set_value(obj[o], arg) :
       Return(o, r, Given(o, arg, r)) /\ Mark(o, Lost(o, r))

SetAsScalar(o) ==
  /\ Ready(o)
  /\ \E s \in ScalarTypes : \E v \in Samples(s) : \E r \in set_as(s, obj[o], v) :
       /\ Return(o, r, IF r.kept THEN [as |-> s, h |-> Quarters(s, v)] ELSE Nothing)
       /\ Mark(o, Lost(o, r))

SetAsText(o) ==
  /\ Ready(o)
  /\ \E x \in Texts : \E n \in {TextLen(x), TextLen(x) + 1} :
       \E r \in cplus_data_set_as_string(obj[o], n, x) :
         Return(o, r, IF r.kept THEN Shown(x) ELSE Nothing) /\ Mark(o, Lost(o, r))

SetAsBytes(o) ==
  /\ Ready(o)
  /\ \E c \in Arrays : \E r \in cplus_data_set_as_byte_array(obj[o], c) :
       /\ Return(o, r, IF r.d = obj[o] THEN wrote[o] ELSE Nothing)
       /\ Mark(o, IF obj[o].type = "STRING" THEN {"raw bytes"} ELSE {})

Clone(o, src) ==
  /\ Ready(o) /\ obj[src].live /\ o # src
  /\ \E r \in cplus_data_clone_value(obj[o], obj[src]) :
       /\ Return(o, r, IF r.kept THEN wrote[src] ELSE IF r.d = obj[o] THEN wrote[o] ELSE Nothing)
       /\ Mark(o, marred[src] \cup IF obj[o].alloc = Null THEN {} ELSE Lost(o, r))

Get(o) ==
  /\ Ready(o)
  /\ \/ \E s \in Gettable : \E r \in get_as(s, obj[o]) : Return(o, r, wrote[o])
     \/ \E c \in Caps : \/ \E r \in cplus_data_get_value(obj[o], c) : Return(o, r, wrote[o])
                        \/ \E r \in cplus_data_get_as_string(obj[o], c) : Return(o, r, wrote[o])
                        \/ \E r \in cplus_data_get_as_byte_array(obj[o], c) : Return(o, r, wrote[o])
     \/ \E r \in cplus_data_get_data_size(obj[o]) : Return(o, r, wrote[o])
  /\ UNCHANGED marred

SetKey(o) ==
  /\ Ready(o)
  /\ \E n \in KeyLengths(o) : \E r \in cplus_data_set_key(obj[o], n) :
       /\ Return(o, r, wrote[o])
       /\ Mark(o, IF r.d.key = Null THEN {"no memory"} ELSE {})

Init ==
  /\ \E types \in TypeChoices : obj = [o \in Objects |-> Absent(types[o])]
  /\ stopped = "no"
  /\ wrote = [o \in Objects |-> Nothing]
  /\ marred = [o \in Objects |-> {}]

Next ==
  \/ \E o \in Objects : New(o) \/ Delete(o)
  \/ \E o \in Converted : \/ SetValue(o) \/ SetAsScalar(o) \/ SetAsText(o) \/ SetAsBytes(o)
                          \/ Get(o) \/ SetKey(o) \/ \E src \in Objects : Clone(o, src)

Spec == Init /\ [][Next]_vars
---------------------------------------------------------------------------
\* Properties

\* Type t has a value of h quarters.
Holds(t, h) ==
  CASE t = "BOOL" -> h \in {0, 4}
    [] t \in FloatTypes -> Nearest(t, h) = h
    [] OTHER -> h % 4 = 0 /\ h \div 4 \in Lo(t)..Hi(t)

\* What an object of type t keeps of the number w: a string rounds it.
Kept(t, w) == IF t = "STRING" THEN SixDecimals(w.h) ELSE w.h

\* An object of type t that was given the number w can return it as type s:
\* both types have it, and for an array s reads no more bytes than were set.
Carries(t, w, s) ==
  /\ Holds(s, Kept(t, w))
  /\ CASE t = "STRING" -> w.as # "POINTER" /\ (s = "BOOL" <=> w.as = "BOOL")
       [] t = "BYTE_ARRAY" ->
            \/ s = w.as
            \/ /\ {s, w.as} \cap (FloatTypes \cup {"STRING"}) = {}
               /\ Size[s] <= Size[w.as]
       [] OTHER -> Holds(t, w.h) /\ (w.as = "STRING" => t \notin {"BOOL", "POINTER"})

\* A number that was written to an object as one type (cplus_data_set_*,
\* cplus_data_set_as_*, cplus_data_clone_value) is read back as any type
\* (cplus_data_get_as_*) that can show it, exactly, or from a string rounded to
\* the six decimals of its text, whatever the object's own type and whatever was
\* in the object before.
ConvertExact ==
  \A o \in Converted :
    wrote[o] # Nothing /\ obj[o].live /\ ~obj[o].lock =>
      \A s \in Gettable :
        Carries(obj[o].type, wrote[o], s) =>
          \A r \in get_as(s, obj[o]) :
            r.ret = "SUCCESS" /\ Quarters(s, r.v) = Kept(obj[o].type, wrote[o])

\* The recorded lengths never exceed what was allocated, and a string whose
\* bytes were not set through cplus_data_set_as_byte_array ends inside it: the
\* copies of the getters stay in the buffer.
BufferSound ==
  \A o \in Objects :
    obj[o].live /\ obj[o].alloc # Null =>
      CASE obj[o].type = "STRING" ->
             /\ obj[o].len <= obj[o].alloc
             /\ obj[o].text.form = "open" \/ TextLen(obj[o].text) < obj[o].len
             /\ obj[o].text.form = "open" => "raw bytes" \in marred[o]
        [] OTHER -> obj[o].len <= obj[o].size /\ obj[o].size <= obj[o].alloc
                    /\ Len(obj[o].cells) = obj[o].len

\* Whatever branch a call takes and wherever it returns, only calls on a byte array
\* leave the spin lock of the object taken (cplus_data_get_value of an empty one)
\* or take it twice (cplus_data_set_as_double and _pointer): no caller spins for
\* ever on an object of another type.
OnlyByteArraysHang ==
  /\ stopped = "no" => \A o \in Objects : obj[o].lock => obj[o].type = "BYTE_ARRAY"
  /\ stopped = "hang" => \E o \in Objects : obj[o].lock /\ obj[o].type = "BYTE_ARRAY"

\* An object that says it is valid (cplus_data_is_valid) can be read: no getter
\* dereferences NULL, unless an allocation failed or its bytes were set raw.
ValidReadable ==
  \A o \in Objects :
    cplus_data_is_valid(obj[o]) /\ marred[o] = {} =>
      \A s \in Gettable : \A r \in get_as(s, obj[o]) : r.ret # "null"
=============================================================================
