---------------------------- MODULE DataProofs ----------------------------
(***************************************************************************)
(* Proofs about module Data, for every byte size, every set of objects,    *)
(* texts, arrays and buffers, and whether or not allocations fail.         *)
(***************************************************************************)
EXTENDS Data, SequenceTheorems, WellFoundedInduction, TLAPS

\* d has the fields of a struct data.
IsRecord(d) ==
  d = [type |-> d.type, live |-> d.live, valid |-> d.valid, num |-> d.num, text |-> d.text,
       cells |-> d.cells, len |-> d.len, alloc |-> d.alloc, size |-> d.size, lock |-> d.lock,
       key |-> d.key, key_len |-> d.key_len]

\* d is a struct data.
IsObj(d) ==
  /\ d = [type |-> d.type, live |-> d.live, valid |-> d.valid, num |-> d.num, text |-> d.text,
          cells |-> d.cells, len |-> d.len, alloc |-> d.alloc, size |-> d.size, lock |-> d.lock,
          key |-> d.key, key_len |-> d.key_len]
  /\ d.type \in DataTypes /\ d.len \in Nat /\ d.size \in Nat
  /\ d.alloc \in Nat \cup {Null} /\ d.lock \in BOOLEAN

\* A text with an end.
Ended(x) == TextLen(x) \in Nat /\ x.form # "open"

\* What the buffer of a string and of an array holds.
StringSound(d, m) ==
  d.type = "STRING" /\ d.alloc # Null =>
    /\ d.len <= d.alloc
    /\ d.text.form = "open" \/ (TextLen(d.text) \in Nat /\ TextLen(d.text) < d.len)
    /\ d.text.form = "open" => "raw bytes" \in m

ArraySound(d) ==
  /\ d.type = "BYTE_ARRAY" => d.len <= d.size
  /\ d.type = "BYTE_ARRAY" /\ d.alloc # Null => d.size <= d.alloc /\ Len(d.cells) = d.len
  /\ d.type \notin BufferTypes => d.alloc = Null

\* A string without a buffer is not valid, unless something happened to it.
Readable(d, m) == d.type = "STRING" /\ d.valid /\ d.alloc = Null => m # {}

Sound(d, m) == IsObj(d) /\ StringSound(d, m) /\ ArraySound(d) /\ Readable(d, m)

\* Between two calls only an array has its lock taken.
Usable(d) == d.lock => d.type = "BYTE_ARRAY"

\* Distinct types.
LEMMA TypeFacts ==
  /\ "STRING" \notin ScalarTypes /\ "BYTE_ARRAY" \notin ScalarTypes /\ "NULL" \notin ScalarTypes
  /\ "NULL" \notin BufferTypes /\ BufferTypes = {"STRING", "BYTE_ARRAY"}
  BY DEF ScalarTypes, IntTypes, SignedTypes, UnsignedTypes, FloatTypes, BufferTypes

\* What happened to an object before does not make it worse.
LEMMA SoundGrows ==
  ASSUME NEW d, NEW m, NEW w, Sound(d, m)
  PROVE  Sound(d, m \cup w)
<1>1. m # {} => m \cup w # {}
  OBVIOUS
<1> QED
  BY <1>1 DEF Sound, StringSound, Readable

LEMMA FreshSound ==
  ASSUME NEW t \in DataTypes
  PROVE  /\ Sound(Fresh(t), {}) /\ Sound(Absent(t), {}) /\ Fresh(t).type = t /\ Absent(t).type = t
         /\ Usable(Fresh(t)) /\ Usable(Absent(t))
<1>1. PICK f : f = Fresh(t)
  OBVIOUS
<1>2. f = [type |-> t, live |-> TRUE, valid |-> FALSE, num |-> 0, text |-> NoText, cells |-> <<>>,
           len |-> 0, alloc |-> Null, size |-> 0, lock |-> FALSE, key |-> Null, key_len |-> 0]
  BY <1>1 DEF Fresh
<1>3. Sound(f, {}) /\ f.type = t /\ Usable(f)
  BY <1>2 DEF Sound, IsObj, StringSound, ArraySound, Readable, Usable
<1>4. PICK g : g = [f EXCEPT !.live = FALSE]
  OBVIOUS
<1>5. g = [type |-> t, live |-> FALSE, valid |-> FALSE, num |-> 0, text |-> NoText, cells |-> <<>>,
           len |-> 0, alloc |-> Null, size |-> 0, lock |-> FALSE, key |-> Null, key_len |-> 0]
  BY <1>2, <1>4
<1>6. Sound(g, {}) /\ g.type = t /\ Usable(g)
  BY <1>5 DEF Sound, IsObj, StringSound, ArraySound, Readable, Usable
<1> QED
  BY <1>1, <1>3, <1>4, <1>6 DEF Absent

LEMMA AllocateFacts ==
  ASSUME NEW n \in Nat, NEW a \in Allocate(n)
  PROVE  a = n \/ a = Null
  BY DEF Allocate

LEMMA CutFits ==
  ASSUME NEW x, NEW size \in Nat \ {0}, Ended(x)
  PROVE  TextLen(Cut(x, size)) < size /\ Ended(Cut(x, size))
<1>1. CASE TextLen(x) < size
  BY <1>1 DEF Cut, Ended
<1>2. CASE ~(TextLen(x) < size)
  <2>1. Cut(x, size) = Text("raw", size - 1)
    BY <1>2 DEF Cut
  <2>2. Text("raw", size - 1).form = "raw" /\ Text("raw", size - 1).n = size - 1
    BY DEF Text
  <2>3. TextLen(Text("raw", size - 1)) = size - 1
    BY <2>2 DEF TextLen
  <2> QED
    BY <2>1, <2>2, <2>3 DEF Ended
<1> QED
  BY <1>1, <1>2

----------------------------------------------------------------------------
(* The outcomes of the calls.                                              *)

IsOut(r) == r = [ret |-> r.ret, d |-> r.d, v |-> r.v, kept |-> r.kept]

\* A buffer that is gone is recorded as lost.
LostOf(d) == IF d.alloc = Null /\ d.type \in BufferTypes THEN {"no memory"} ELSE {}

\* A call that returns leaves the lock released, unless the object is an array,
\* and one that spins for ever spins on an array.
Returns(r) ==
  /\ r.ret \notin Stops => Usable(r.d)
  /\ r.ret = "hang" => r.d.lock /\ r.d.type = "BYTE_ARRAY"

\* The object after a setter, and after one that succeeds.
Ends(r, m) == IsOut(r) /\ Sound(r.d, m \cup LostOf(r.d)) /\ Returns(r)
Sets(r, m) == Ends(r, m) /\ (r.ret # "FAIL" => Sound(r.d, m))

LEMMA SimpleOutcomes ==
  ASSUME NEW d, NEW how, NEW v
  PROVE  /\ IsOut(Failed(d)) /\ Failed(d).ret = "FAIL" /\ Failed(d).d = d
         /\ IsOut(Stop(how, d)) /\ Stop(how, d).ret = how /\ Stop(how, d).d = d
         /\ IsOut(Got(d, v)) /\ Got(d, v).ret = "SUCCESS" /\ Got(d, v).d = d
  BY DEF Failed, Stop, Got, Outcome, IsOut

\* A call that leaves the object as it is.
LEMMA SameSets ==
  ASSUME NEW r, NEW m, IsOut(r), Sound(r.d, m), Returns(r)
  PROVE  Sets(r, m)
  BY SoundGrows DEF Sets, Ends

LEMMA SetStringSets ==
  ASSUME NEW d, NEW m, Sound(d, m), d.type = "STRING", NEW n \in Nat, NEW x, Ended(x),
         NEW r \in SetString(d, n, x)
  PROVE  Sets(r, m)
<1> DEFINE grows == d.alloc = Null \/ n + 1 > d.len
           len == IF grows THEN n + 1 ELSE d.len
           text == IF x = NoText THEN Empty ELSE Cut(x, len)
<1>1. PICK a \in IF grows THEN Allocate(n + 1) ELSE {d.alloc} :
        r = IF a = Null
            THEN Failed([d EXCEPT !.len = len, !.alloc = Null, !.text = NoText, !.lock = FALSE])
            ELSE Outcome("SUCCESS", [d EXCEPT !.len = len, !.alloc = a, !.text = text, !.valid = TRUE,
                                              !.lock = FALSE],
                         0, text = x)
  BY DEF SetString
<1>2. d.len \in Nat /\ d.alloc \in Nat \cup {Null} /\ (d.alloc # Null => d.len <= d.alloc)
  BY DEF Sound, IsObj, StringSound
<1>3. len \in Nat \ {0} /\ (a = Null \/ (a \in Nat /\ len <= a))
  <2>1. CASE grows
    BY <1>1, <2>1, AllocateFacts
  <2>2. CASE ~grows
    BY <1>1, <1>2, <2>2
  <2> QED
    BY <2>1, <2>2
<1>4. TextLen(text) < len /\ Ended(text)
  <2>1. CASE x = NoText
    <3>1. text = Empty /\ Empty.form = "raw" /\ Empty.n = 0
      BY <2>1 DEF Empty, Text
    <3>2. TextLen(Empty) = 0
      BY <3>1 DEF TextLen
    <3> HIDE DEF text, len
    <3> QED
      BY <1>3, <3>1, <3>2 DEF Ended
  <2>2. CASE x # NoText
    <3>1. text = Cut(x, len)
      BY <2>2
    <3> HIDE DEF text, len
    <3> QED
      BY <1>3, <3>1, CutFits
  <2> QED
    BY <2>1, <2>2
<1> HIDE DEF grows, len, text
<1>5. CASE a = Null
  <2>1. PICK e : e = [d EXCEPT !.len = len, !.alloc = Null, !.text = NoText, !.lock = FALSE]
    OBVIOUS
  <2>2. r = Failed(e)
    BY <1>1, <1>5, <2>1
  <2>3. IsOut(r) /\ r.ret = "FAIL" /\ r.d = e
    BY <2>2, SimpleOutcomes
  <2>4. Sound(e, m \cup {"no memory"})
    BY <1>3, <2>1 DEF Sound, IsObj, StringSound, ArraySound, Readable, BufferTypes
  <2>5. LostOf(e) = {"no memory"}
    BY <2>1 DEF LostOf, Sound, IsObj, BufferTypes
  <2>6. e.lock = FALSE
    BY <2>1 DEF Sound, IsObj
  <2> QED
    BY <2>3, <2>4, <2>5, <2>6 DEF Sets, Ends, Returns, Usable, Stops
<1>6. CASE a # Null
  <2>1. PICK e : e = [d EXCEPT !.len = len, !.alloc = a, !.text = text, !.valid = TRUE,
                           !.lock = FALSE]
    OBVIOUS
  <2>2. r = Outcome("SUCCESS", e, 0, text = x)
    BY <1>1, <1>6, <2>1
  <2>3. IsOut(r) /\ r.d = e /\ r.ret = "SUCCESS"
    BY <2>2 DEF Outcome, IsOut
  <2>4. Sound(e, m)
    <3>1. /\ e.len = len /\ e.alloc = a /\ e.text = text /\ e.type = "STRING" /\ e.size = d.size
          /\ e.lock = FALSE
          /\ e = [type |-> e.type, live |-> e.live, valid |-> e.valid, num |-> e.num, text |-> e.text,
                  cells |-> e.cells, len |-> e.len, alloc |-> e.alloc, size |-> e.size,
                  lock |-> e.lock, key |-> e.key, key_len |-> e.key_len]
      BY <2>1 DEF Sound, IsObj
    <3>2. StringSound(e, m)
      BY <1>3, <1>4, <1>6, <3>1 DEF StringSound, Ended
    <3> QED
      BY <1>3, <1>6, <3>1, <3>2 DEF Sound, IsObj, ArraySound, Readable, BufferTypes
  <2>5. e.lock = FALSE
    BY <2>1 DEF Sound, IsObj
  <2> QED
    BY <2>3, <2>4, <2>5, SameSets DEF Returns, Usable
<1> QED
  BY <1>5, <1>6

\* The length of a prefix.
LEMMA PrefixLen ==
  ASSUME NEW c, NEW n \in Nat
  PROVE  Len(SubSeq(c, 1, n)) = n
<1>1. PICK S : S = {c[i] : i \in 1..n}
  OBVIOUS
<1>2. \A i \in 1..n : c[i] \in S
  BY <1>1
<1>3. 1 \in Int /\ n \in Int
  OBVIOUS
<1>4. Len(SubSeq(c, 1, n)) = IF 1 <= n THEN n - 1 + 1 ELSE 0
  BY <1>2, <1>3, SubSeqProperties
<1> QED
  BY <1>4

LEMMA SetBytesSets ==
  ASSUME NEW d, NEW m, Sound(d, m), d.type = "BYTE_ARRAY", NEW n \in Nat, NEW cells, NEW text,
         NEW r \in SetBytes(d, n, cells, text)
  PROVE  Sets(r, m)
<1> DEFINE grows == d.alloc = Null \/ n > d.len
           size == IF grows THEN n ELSE d.len
           new == [d EXCEPT !.len = n, !.size = size, !.lock = FALSE]
           c == SubSeq(cells, 1, n)
<1>1. PICK a \in IF grows THEN Allocate(n) ELSE {d.alloc} :
        r = IF a = Null
            THEN Failed([new EXCEPT !.alloc = Null, !.cells = <<>>, !.text = NoText])
            ELSE Outcome("SUCCESS",
                   [new EXCEPT !.alloc = a, !.cells = c, !.text = text, !.valid = TRUE], 0, TRUE)
  BY DEF SetBytes
<1>2. /\ d.len \in Nat /\ d.size \in Nat /\ d.len <= d.size
      /\ d.alloc \in Nat \cup {Null} /\ (d.alloc # Null => d.size <= d.alloc)
  BY DEF Sound, IsObj, ArraySound
<1>3. size \in Nat /\ n <= size /\ (a = Null \/ (a \in Nat /\ size <= a))
  <2>1. CASE grows
    BY <1>1, <2>1, AllocateFacts
  <2>2. CASE ~grows
    BY <1>1, <1>2, <2>2
  <2> QED
    BY <2>1, <2>2
<1>4. Len(c) = n
  BY PrefixLen
<1> HIDE DEF grows, size, c
<1>5. CASE a = Null
  <2>1. PICK e : e = [new EXCEPT !.alloc = Null, !.cells = <<>>, !.text = NoText]
    OBVIOUS
  <2>2. r = Failed(e)
    BY <1>1, <1>5, <2>1
  <2>3. IsOut(r) /\ r.ret = "FAIL" /\ r.d = e
    BY <2>2, SimpleOutcomes
  <2>4. Sound(e, m \cup {"no memory"})
    BY <1>3, <2>1 DEF Sound, IsObj, StringSound, ArraySound, Readable, BufferTypes
  <2>5. LostOf(e) = {"no memory"}
    BY <2>1 DEF LostOf, Sound, IsObj, BufferTypes
  <2>6. e.lock = FALSE
    BY <2>1 DEF Sound, IsObj
  <2> QED
    BY <2>3, <2>4, <2>5, <2>6 DEF Sets, Ends, Returns, Usable, Stops
<1>6. CASE a # Null
  <2>1. PICK e : e = [new EXCEPT !.alloc = a, !.cells = c, !.text = text, !.valid = TRUE]
    OBVIOUS
  <2>2. r = Outcome("SUCCESS", e, 0, TRUE)
    BY <1>1, <1>6, <2>1
  <2>3. IsOut(r) /\ r.d = e /\ r.ret = "SUCCESS"
    BY <2>2 DEF Outcome, IsOut
  <2>4. Sound(e, m)
    <3>1. /\ e.len = n /\ e.alloc = a /\ e.cells = c /\ e.type = "BYTE_ARRAY" /\ e.size = size
          /\ e.lock = FALSE
          /\ e = [type |-> e.type, live |-> e.live, valid |-> e.valid, num |-> e.num, text |-> e.text,
                  cells |-> e.cells, len |-> e.len, alloc |-> e.alloc, size |-> e.size,
                  lock |-> e.lock, key |-> e.key, key_len |-> e.key_len]
      BY <2>1 DEF Sound, IsObj
    <3> QED
      BY <1>3, <1>4, <1>6, <3>1 DEF Sound, IsObj, StringSound, ArraySound, Readable, BufferTypes,
         DataTypes
  <2>5. e.lock = FALSE
    BY <2>1 DEF Sound, IsObj
  <2> QED
    BY <2>3, <2>4, <2>5, SameSets DEF Returns, Usable
<1> QED
  BY <1>5, <1>6

\* Setting the number or the flag of an object.
LEMMA NumSound ==
  ASSUME NEW d, NEW m, Sound(d, m), NEW e, NEW n,
         \/ e = [d EXCEPT !.num = n, !.valid = TRUE]
         \/ e = [d EXCEPT !.valid = TRUE],
         d.type = "STRING" /\ d.alloc = Null => m # {}
  PROVE  Sound(e, m)
<1>1. /\ e.len = d.len /\ e.alloc = d.alloc /\ e.text = d.text /\ e.type = d.type /\ e.size = d.size
      /\ e.lock = d.lock /\ e.cells = d.cells
      /\ e = [type |-> e.type, live |-> e.live, valid |-> e.valid, num |-> e.num, text |-> e.text,
              cells |-> e.cells, len |-> e.len, alloc |-> e.alloc, size |-> e.size,
              lock |-> e.lock, key |-> e.key, key_len |-> e.key_len]
  BY DEF Sound, IsObj
<1> QED
  BY <1>1 DEF Sound, IsObj, StringSound, ArraySound, Readable

\* A call that goes on after a setter that returns, and marks the object valid.
LEMMA AfterEnds ==
  ASSUME NEW r, NEW m, Ends(r, m), NEW q, NEW how, how \notin Stops,
         q = IF r.ret \in Stops THEN r ELSE [r EXCEPT !.ret = how, !.d.valid = TRUE]
  PROVE  Ends(q, m)
<1>1. PICK e : e = [r.d EXCEPT !.valid = TRUE]
  OBVIOUS
<1>2. CASE r.ret \notin Stops
  <2>1. IsOut(q) /\ q.d = e /\ q.ret = how
    BY <1>1, <1>2 DEF Ends, IsOut
  <2>2. r.d.type = "STRING" /\ r.d.alloc = Null => m \cup LostOf(r.d) # {}
    BY DEF LostOf, BufferTypes
  <2>3. Sound(e, m \cup LostOf(r.d))
    BY <1>1, <2>2, NumSound DEF Ends
  <2>4. LostOf(e) = LostOf(r.d) /\ e.lock = r.d.lock /\ e.type = r.d.type
    BY <1>1 DEF LostOf, Ends, Sound, IsObj
  <2>5. Usable(r.d)
    BY <1>2 DEF Ends, Returns
  <2>6. Returns(q)
    BY <2>1, <2>4, <2>5 DEF Returns, Usable, Stops
  <2> QED
    BY <2>1, <2>3, <2>4, <2>6 DEF Ends
<1> QED
  BY <1>2

LEMMA StopFacts == "SUCCESS" \notin Stops /\ "FAIL" \notin Stops
  BY DEF Stops

LEMMA KeptEnds ==
  ASSUME NEW r, NEW m, Ends(r, m), NEW q, NEW kept, q = [r EXCEPT !.kept = kept]
  PROVE  Ends(q, m)
<1>1. IsOut(q) /\ q.d = r.d /\ q.ret = r.ret
  BY DEF Ends, IsOut
<1> QED
  BY <1>1 DEF Ends, Returns

\* An object with its lock taken is otherwise the same.
LEMMA TakenFacts ==
  ASSUME NEW d, IsObj(d), NEW types, NEW e, e = Taken(d, types)
  PROVE  /\ IsObj(e) /\ (\A m : Sound(d, m) => Sound(e, m)) /\ (e = d \/ e = [d EXCEPT !.lock = TRUE])
         /\ e.type = d.type /\ e.len = d.len /\ e.alloc = d.alloc /\ e.text = d.text
         /\ e.cells = d.cells /\ e.size = d.size /\ e.num = d.num /\ e.valid = d.valid
         /\ e.live = d.live /\ (d.type \in types => e.lock)
<1>1. e = d \/ (e = [d EXCEPT !.lock = TRUE] /\ d.type \in types)
  BY DEF Taken
<1>2. CASE e = d
  <2>1. d.type \in types => d.lock
    BY <1>1, <1>2 DEF Taken, IsObj
  <2> QED
    BY <1>2, <2>1
<1>3. CASE e = [d EXCEPT !.lock = TRUE] /\ d.type \in types
  <2>1. /\ e.type = d.type /\ e.len = d.len /\ e.alloc = d.alloc /\ e.text = d.text
        /\ e.cells = d.cells /\ e.size = d.size /\ e.num = d.num /\ e.valid = d.valid
        /\ e.live = d.live /\ e.lock = TRUE
        /\ e = [type |-> e.type, live |-> e.live, valid |-> e.valid, num |-> e.num, text |-> e.text,
                cells |-> e.cells, len |-> e.len, alloc |-> e.alloc, size |-> e.size,
                lock |-> e.lock, key |-> e.key, key_len |-> e.key_len]
    BY <1>3 DEF IsObj
  <2>2. IsObj(e)
    BY <2>1 DEF IsObj
  <2>3. ASSUME NEW m, Sound(d, m) PROVE Sound(e, m)
    BY <2>1, <2>2, <2>3 DEF Sound, StringSound, ArraySound, Readable
  <2> QED
    BY <1>3, <2>1, <2>2, <2>3
<1> QED
  BY <1>1, <1>2, <1>3

\* A call spins for ever on an array whose lock is taken, or takes the lock of an
\* object that had it released: releasing it gives the object back.
LEMMA SpinReads ==
  ASSUME NEW d, IsObj(d), NEW types, NEW O, NEW r \in Spin(d, types, O)
  PROVE  \/ r = Stop("hang", d) /\ d.lock
         \/ r \in O /\ Released(Taken(d, types), types) = d
<1>1. CASE d.type \in types /\ d.lock
  BY <1>1 DEF Spin
<1>2. CASE d.type \notin types
  BY <1>2 DEF Spin, Taken, Released
<1>3. CASE d.type \in types /\ ~d.lock
  <2>1. PICK e : e = [d EXCEPT !.lock = TRUE]
    OBVIOUS
  <2>2. PICK u : u = [e EXCEPT !.lock = FALSE]
    OBVIOUS
  <2>3. u = d /\ e.type = d.type
    BY <1>3, <2>1, <2>2 DEF IsObj
  <2> QED
    BY <1>3, <2>1, <2>2, <2>3 DEF Spin, Taken, Released
<1> QED
  BY <1>1, <1>2, <1>3

LEMMA SpinOutcome ==
  ASSUME NEW d, IsObj(d), Usable(d), NEW types, NEW O, NEW r \in Spin(d, types, O)
  PROVE  \/ r = Stop("hang", d) /\ d.lock /\ d.type = "BYTE_ARRAY"
         \/ r \in O /\ Released(Taken(d, types), types) = d
  BY SpinReads DEF Usable

LEMMA StoredSets ==
  ASSUME NEW d, NEW m, Sound(d, m), Usable(d), d.type # "STRING", NEW n
  PROVE  Sets(Stored(d, n), m)
<1>1. PICK e : e = [d EXCEPT !.num = n, !.valid = TRUE]
  OBVIOUS
<1>2. IsOut(Stored(d, n)) /\ Stored(d, n).d = e /\ Stored(d, n).ret = "SUCCESS"
  BY <1>1 DEF Stored, Outcome, IsOut
<1>3. Sound(e, m)
  BY <1>1, NumSound
<1>4. Usable(e)
  BY <1>1 DEF Sound, IsObj, Usable
<1> QED
  BY <1>2, <1>3, <1>4, SameSets DEF Returns

LEMMA HangSets ==
  ASSUME NEW d, NEW m, Sound(d, m)
  PROVE  /\ d.lock /\ d.type = "BYTE_ARRAY" => Sets(Stop("hang", d), m)
         /\ Usable(d) => Sets(Failed(d), m)
<1>1. /\ IsOut(Stop("hang", d)) /\ Stop("hang", d).d = d /\ Stop("hang", d).ret = "hang"
      /\ IsOut(Failed(d)) /\ Failed(d).d = d /\ Failed(d).ret = "FAIL"
  BY SimpleOutcomes
<1>2. d.lock /\ d.type = "BYTE_ARRAY" => Returns(Stop("hang", d))
  BY <1>1 DEF Returns, Stops
<1>3. Usable(d) => Returns(Failed(d))
  BY <1>1 DEF Returns
<1> QED
  BY <1>1, <1>2, <1>3, SameSets

LEMMA SetValueSets ==
  ASSUME NEW d, NEW m, Sound(d, m), Usable(d), NEW arg, arg.n \in Nat, Ended(arg.text),
         NEW r \in cplus_data_set_value(d, arg)
  PROVE  Sets(r, m)
<1>0. PICK T, e, u : T = Slow \cup BufferTypes /\ e = Taken(d, T) /\ u = Released(e, T)
  OBVIOUS
<1> DEFINE O == CASE d.type = "NULL" -> {Failed(d)}
                  [] d.type = "STRING" -> SetString(e, arg.n, arg.text)
                  [] d.type = "BYTE_ARRAY" -> SetBytes(e, arg.n, arg.cells, arg.text)
                  [] OTHER -> {Stored(u, arg.num)}
<1>1. r \in Spin(d, T, O)
  BY <1>0 DEF cplus_data_set_value
<1> HIDE DEF O
<1>2. \/ r = Stop("hang", d) /\ d.lock /\ d.type = "BYTE_ARRAY"
      \/ r \in O /\ u = d
  BY <1>0, <1>1, SpinOutcome DEF Sound
<1>3. ASSUME r \in O, u = d PROVE Sets(r, m)
  <2>0. Sound(e, m) /\ e.type = d.type
    BY <1>0, TakenFacts DEF Sound
  <2>1. CASE d.type = "NULL"
    <3>1. r = Failed(d)
      BY <1>3, <2>1 DEF O
    <3> QED
      BY <3>1, HangSets
  <2>2. CASE d.type = "STRING"
    <3>1. r \in SetString(e, arg.n, arg.text)
      BY <1>3, <2>2 DEF O
    <3> QED
      BY <2>0, <2>2, <3>1, SetStringSets
  <2>3. CASE d.type = "BYTE_ARRAY"
    <3>1. r \in SetBytes(e, arg.n, arg.cells, arg.text)
      BY <1>3, <2>3 DEF O
    <3> QED
      BY <2>0, <2>3, <3>1, SetBytesSets
  <2>4. CASE d.type \notin {"NULL", "STRING", "BYTE_ARRAY"}
    <3>1. r = Stored(d, arg.num)
      BY <1>3, <2>4 DEF O
    <3> QED
      BY <2>4, <3>1, StoredSets
  <2> QED
    BY <2>1, <2>2, <2>3, <2>4
<1> QED
  BY <1>2, <1>3, HangSets

LEMMA PrintedFacts ==
  ASSUME NEW s \in ScalarTypes, NEW v \in Samples(s)
  PROVE  TextLen(Printed(s, v)) \in Nat /\ Ended(Printed(s, v))
<1>1. TextLen(Printed(s, v)) \in Nat
  BY DataAssumption
<1>2. Printed(s, v).form \in {"true", "false", "fix", "hex", "dec"}
  BY DEF Printed, True, False, Text
<1> QED
  BY <1>1, <1>2 DEF Ended

LEMMA NoTextEnded == Ended(NoText)
<1>1. NoText.form = "none" /\ NoText.n = 0
  BY DEF NoText, Text
<1>2. TextLen(NoText) = 0
  BY <1>1 DEF TextLen
<1> QED
  BY <1>1, <1>2 DEF Ended

LEMMA SizeFacts == ASSUME NEW s \in ScalarTypes PROVE Size[s] \in Nat
  BY DEF Size

LEMMA SetAsEnds ==
  ASSUME NEW d, NEW m, Sound(d, m), Usable(d), NEW T, NEW s \in ScalarTypes, NEW v \in Samples(s),
         NEW r \in SetAs(d, T, s, v)
  PROVE  Ends(r, m)
<1>0. PICK e, u : e = Taken(d, T) /\ u = Released(e, T)
  OBVIOUS
<1> DEFINE A == Argument(0, Size[s], NoText, Image(s, v))
           O == CASE d.type = "NULL" -> {Failed(u)}
                  [] d.type = "STRING" -> SetString(e, TextLen(Printed(s, v)), Printed(s, v))
                  [] d.type = "BYTE_ARRAY" -> Ignore(cplus_data_set_value(e, A))
                  [] OTHER -> {Stored(u, n) : n \in Cast(d.type, s, v)}
<1>1. r \in Spin(d, T, O)
  BY <1>0 DEF SetAs
<1> HIDE DEF O
<1>2. \/ r = Stop("hang", d) /\ d.lock /\ d.type = "BYTE_ARRAY"
      \/ r \in O /\ u = d
  BY <1>0, <1>1, SpinOutcome DEF Sound
<1>3. ASSUME r \in O, u = d PROVE Ends(r, m)
  <2>0. Sound(e, m) /\ e.type = d.type
    BY <1>0, TakenFacts DEF Sound
  <2>1. CASE d.type = "NULL"
    <3>1. r = Failed(d)
      BY <1>3, <2>1 DEF O
    <3> QED
      BY <3>1, HangSets DEF Sets
  <2>2. CASE d.type = "STRING"
    <3>1. r \in SetString(e, TextLen(Printed(s, v)), Printed(s, v))
      BY <1>3, <2>2 DEF O
    <3>2. PICK n, x : n \in Nat /\ n = TextLen(Printed(s, v)) /\ x = Printed(s, v) /\ Ended(x)
      BY PrintedFacts
    <3> QED
      BY <2>0, <2>2, <3>1, <3>2, SetStringSets DEF Sets
  <2>3. CASE d.type = "BYTE_ARRAY"
    <3>1. r \in Ignore(cplus_data_set_value(e, A))
      BY <1>3, <2>3 DEF O
    <3>2. A.n \in Nat /\ Ended(A.text)
      BY SizeFacts, NoTextEnded DEF Argument
    <3>3. Usable(e)
      BY <2>0, <2>3 DEF Usable
    <3> HIDE DEF A
    <3>4. PICK q \in cplus_data_set_value(e, A) :
            r = IF q.ret \in Stops THEN q ELSE [q EXCEPT !.ret = "SUCCESS", !.d.valid = TRUE]
      BY <3>1 DEF Ignore, After
    <3>5. Ends(q, m)
      BY <2>0, <3>2, <3>3, SetValueSets DEF Sets
    <3> QED
      BY <3>4, <3>5, AfterEnds, StopFacts
  <2>4. CASE d.type \notin {"NULL", "STRING", "BYTE_ARRAY"}
    <3>1. PICK n : r = Stored(d, n)
      BY <1>3, <2>4 DEF O
    <3> QED
      BY <2>4, <3>1, StoredSets DEF Sets
  <2> QED
    BY <2>1, <2>2, <2>3, <2>4
<1> QED
  BY <1>2, <1>3, HangSets DEF Sets

\* Which setter set_as is.
LEMMA SetAsKinds ==
  ASSUME NEW d, NEW s \in ScalarTypes, NEW v, NEW r \in set_as(s, d, v)
  PROVE  \/ s = "BOOL" /\ r \in cplus_data_set_as_bool(d, v)
         \/ \E T : r \in SetAs(d, T, s, v) /\ (s \in {"DOUBLE", "POINTER"} => T = DataTypes)
<1>1. CASE s = "BOOL"
  BY <1>1 DEF set_as
<1>2. CASE s \in IntTypes
  <2>1. r \in SetAsInt(d, s, v)
    BY <1>2 DEF set_as, IntTypes, SignedTypes, UnsignedTypes, cplus_data_set_as_int8,
       cplus_data_set_as_int16, cplus_data_set_as_int32, cplus_data_set_as_int64,
       cplus_data_set_as_uint8, cplus_data_set_as_uint16, cplus_data_set_as_uint32,
       cplus_data_set_as_uint64
  <2> QED
    BY <1>2, <2>1 DEF SetAsInt, IntTypes, SignedTypes, UnsignedTypes
<1>3. CASE s = "FLOAT"
  BY <1>3 DEF set_as, cplus_data_set_as_float
<1>4. CASE s \in {"DOUBLE", "POINTER"}
  BY <1>4 DEF set_as, cplus_data_set_as_double, cplus_data_set_as_pointer
<1> QED
  BY <1>1, <1>2, <1>3, <1>4 DEF ScalarTypes, FloatTypes

LEMMA SetAsScalarEnds ==
  ASSUME NEW d, NEW m, Sound(d, m), Usable(d), NEW s \in ScalarTypes, NEW v \in Samples(s),
         NEW r \in set_as(s, d, v)
  PROVE  Ends(r, m)
<1>1. CASE s = "BOOL" /\ d.type = "STRING" /\ r \in cplus_data_set_as_bool(d, v)
  <2> DEFINE x == Printed("BOOL", v)
             A == Argument(0, TextLen(x), x, <<>>)
  <2>1. r \in Ignore(cplus_data_set_value(d, A))
    BY <1>1 DEF cplus_data_set_as_bool
  <2>2. A.n \in Nat /\ Ended(A.text)
    BY <1>1, PrintedFacts DEF Argument
  <2> HIDE DEF A
  <2>3. PICK q \in cplus_data_set_value(d, A) :
          r = IF q.ret \in Stops THEN q ELSE [q EXCEPT !.ret = "SUCCESS", !.d.valid = TRUE]
    BY <2>1 DEF Ignore, After
  <2>4. Ends(q, m)
    BY <2>2, SetValueSets DEF Sets
  <2> QED
    BY <2>3, <2>4, AfterEnds, StopFacts
<1>2. ASSUME NEW T, r \in SetAs(d, T, s, v) PROVE Ends(r, m)
  BY <1>2, SetAsEnds
<1>3. s = "BOOL" /\ d.type # "STRING" /\ r \in cplus_data_set_as_bool(d, v)
      => \E T : r \in SetAs(d, T, s, v)
  BY DEF cplus_data_set_as_bool
<1> QED
  BY <1>1, <1>2, <1>3, SetAsKinds

LEMMA SetAsStringEnds ==
  ASSUME NEW d, NEW m, Sound(d, m), Usable(d), NEW n \in Nat, NEW x, Ended(x),
         NEW r \in cplus_data_set_as_string(d, n, x)
  PROVE  Ends(r, m)
<1>0. PICK u : u = Released(Taken(d, ScalarTypes), ScalarTypes)
  OBVIOUS
<1> DEFINE A == Argument(0, n, x, <<>>)
           B == Argument(0, n, x, Chars(x, n))
           O == CASE d.type = "NULL" -> {Failed(d)}
                  [] d.type = "STRING" -> After(cplus_data_set_value(d, A), LAMBDA q : q.ret)
                  [] d.type = "BYTE_ARRAY" ->
                       {[q EXCEPT !.kept = FALSE]
                        : q \in After(cplus_data_set_value(d, B), LAMBDA q : "FAIL")}
                  [] OTHER ->
                       IF Parsed(d.type, x) = {} THEN {Failed([u EXCEPT !.valid = TRUE])}
                       ELSE {[Stored(u, n2) EXCEPT !.ret = "FAIL"] : n2 \in Parsed(d.type, x)}
<1>1. r \in Spin(d, ScalarTypes, O)
  BY <1>0 DEF cplus_data_set_as_string
<1> HIDE DEF O
<1>2. \/ r = Stop("hang", d) /\ d.lock /\ d.type = "BYTE_ARRAY"
      \/ r \in O /\ u = d
  BY <1>0, <1>1, SpinOutcome DEF Sound
<1>a. A.n \in Nat /\ Ended(A.text) /\ B.n \in Nat /\ Ended(B.text)
  BY DEF Argument
<1> HIDE DEF A, B
<1>3. ASSUME r \in O, u = d PROVE Ends(r, m)
  <2>1. CASE d.type = "NULL"
    <3>1. r = Failed(d)
      BY <1>3, <2>1 DEF O
    <3> QED
      BY <3>1, HangSets DEF Sets
  <2>2. CASE d.type = "STRING"
    <3>1. PICK q \in cplus_data_set_value(d, A) :
            r = IF q.ret \in Stops THEN q ELSE [q EXCEPT !.ret = q.ret, !.d.valid = TRUE]
      BY <1>3, <2>2 DEF O, After
    <3>2. Ends(q, m)
      BY <1>a, SetValueSets DEF Sets
    <3>3. CASE q.ret \in Stops
      BY <3>1, <3>2, <3>3
    <3>4. CASE q.ret \notin Stops
      <4>1. PICK how : how = q.ret
        OBVIOUS
      <4> QED
        BY <3>1, <3>2, <3>4, <4>1, AfterEnds
    <3> QED
      BY <3>3, <3>4
  <2>3. CASE d.type = "BYTE_ARRAY"
    <3>1. PICK p \in After(cplus_data_set_value(d, B), LAMBDA q : "FAIL") : r = [p EXCEPT !.kept = FALSE]
      BY <1>3, <2>3 DEF O
    <3>2. PICK q \in cplus_data_set_value(d, B) :
            p = IF q.ret \in Stops THEN q ELSE [q EXCEPT !.ret = "FAIL", !.d.valid = TRUE]
      BY DEF After
    <3>3. Ends(q, m)
      BY <1>a, SetValueSets DEF Sets
    <3>4. Ends(p, m)
      BY <3>2, <3>3, AfterEnds, StopFacts
    <3> QED
      BY <3>1, <3>4, KeptEnds
  <2>4. CASE d.type \notin {"NULL", "STRING", "BYTE_ARRAY"}
    <3>1. \/ r = Failed([d EXCEPT !.valid = TRUE])
          \/ \E n2 : r = [Stored(d, n2) EXCEPT !.ret = "FAIL"]
      BY <1>3, <2>4 DEF O
    <3>2. PICK e : e = [d EXCEPT !.valid = TRUE]
      OBVIOUS
    <3>3. Sound(e, m) /\ Usable(e)
      <4>1. Usable(e)
        BY <3>2 DEF Sound, IsObj, Usable
      <4> QED
        BY <2>4, <3>2, <4>1, NumSound
    <3>4. CASE r = Failed([d EXCEPT !.valid = TRUE])
      BY <3>2, <3>3, <3>4, HangSets DEF Sets
    <3>5. ASSUME NEW n2, r = [Stored(d, n2) EXCEPT !.ret = "FAIL"] PROVE Ends(r, m)
      <4>1. PICK q : q = Stored(d, n2)
        OBVIOUS
      <4>2. Ends(q, m) /\ q.ret = "SUCCESS"
        BY <2>4, <4>1, StoredSets DEF Sets, Stored, Outcome
      <4>3. IsOut(r) /\ r.d = q.d /\ r.ret = "FAIL"
        BY <3>5, <4>1, <4>2 DEF Ends, IsOut
      <4> QED
        BY <4>2, <4>3 DEF Ends, Returns, Stops
    <3> QED
      BY <3>1, <3>4, <3>5
  <2> QED
    BY <2>1, <2>2, <2>3, <2>4
<1> QED
  BY <1>2, <1>3, HangSets DEF Sets

LEMMA LeastExists ==
  ASSUME NEW T, T \subseteq Nat, T # {}
  PROVE  \E x \in T : \A y \in T : x <= y
<1>1. PICK x \in T : \A y \in T : ~ (<<y, x>> \in OpToRel(<, Nat))
  BY NatLessThanWellFounded, WFMin
<1>2. ASSUME NEW y \in T PROVE x <= y
  <2>1. <<y, x>> \notin {ss \in Nat \X Nat : ss[1] < ss[2]}
    BY <1>1 DEF OpToRel
  <2> QED
    BY <2>1
<1> QED
  BY <1>2

\* A string that is filled byte by byte ends before the last byte or is open; an
\* array keeps its length.
LEMMA SetAsBytesSound ==
  ASSUME NEW d, NEW m, Sound(d, m), Usable(d), NEW cells, Len(cells) \in Nat,
         NEW r \in cplus_data_set_as_byte_array(d, cells)
  PROVE  Sound(r.d, m \cup IF d.type = "STRING" THEN {"raw bytes"} ELSE {}) /\ Returns(r)
<1> DEFINE zeros == {i \in 1..Least(d.len, Len(cells)) : cells[i] = 0}
           text == IF zeros = {} THEN Text("open", d.len) ELSE Text("raw", Min(zeros) - 1)
           valid == [d EXCEPT !.valid = TRUE]
           w == m \cup IF d.type = "STRING" THEN {"raw bytes"} ELSE {}
<1>1. \/ r = Stop("hang", d) /\ d.lock /\ d.type = "BYTE_ARRAY"
      \/ r = CASE d.type = "NULL" -> Failed(d)
               [] d.type = "STRING" ->
                    IF Len(cells) < d.len + 1 THEN Failed(d)
                    ELSE Failed([valid EXCEPT !.text = IF d.alloc = Null THEN @ ELSE text])
               [] d.type = "BYTE_ARRAY" ->
                    IF Len(cells) < d.len THEN Failed(d)
                    ELSE Failed([valid EXCEPT !.cells = IF d.alloc = Null THEN @
                                                        ELSE SubSeq(cells, 1, d.len),
                                              !.text = NoText])
               [] OTHER ->
                    IF Len(cells) < Size[d.type] THEN Failed(d)
                    ELSE Failed([valid EXCEPT !.num = FromImage(d.type, SubSeq(cells, 1, Size[d.type]))])
  <2>0. PICK u : u = Released(Taken(d, AllButNull), AllButNull)
    OBVIOUS
  <2> DEFINE set == [u EXCEPT !.valid = TRUE]
             O == {CASE d.type = "NULL" -> Failed(d)
                     [] d.type = "STRING" ->
                          IF Len(cells) < d.len + 1 THEN Failed(u)
                          ELSE Failed([set EXCEPT !.text = IF d.alloc = Null THEN @ ELSE text])
                     [] d.type = "BYTE_ARRAY" ->
                          IF Len(cells) < d.len THEN Failed(u)
                          ELSE Failed([set EXCEPT !.cells = IF d.alloc = Null THEN @
                                                            ELSE SubSeq(cells, 1, d.len),
                                                  !.text = NoText])
                     [] OTHER ->
                          IF Len(cells) < Size[d.type] THEN Failed(u)
                          ELSE Failed([set EXCEPT !.num = FromImage(d.type, SubSeq(cells, 1, Size[d.type]))])}
  <2>1. r \in Spin(d, AllButNull, O)
    BY <2>0 DEF cplus_data_set_as_byte_array
  <2> HIDE DEF O
  <2>2. (r = Stop("hang", d) /\ d.lock /\ d.type = "BYTE_ARRAY") \/ (r \in O /\ u = d)
    BY <2>0, <2>1, SpinOutcome DEF Sound
  <2> QED
    BY <2>2 DEF O
<1>2. d.len \in Nat /\ d.alloc \in Nat \cup {Null}
  BY DEF Sound, IsObj
<1>3. text.form = "open" \/ (text.form = "raw" /\ TextLen(text) \in Nat /\ TextLen(text) < d.len)
  <2>1. CASE zeros = {}
    BY <2>1 DEF Text
  <2>2. CASE zeros # {}
    <3>1. zeros \subseteq 1..d.len /\ zeros \subseteq Nat
      BY <1>2 DEF Least
    <3> HIDE DEF zeros
    <3>2. Min(zeros) \in zeros
      BY <2>2, <3>1, LeastExists DEF Min
    <3>3. PICK k \in 1..d.len : k = Min(zeros)
      BY <3>1, <3>2
    <3>4. text = Text("raw", k - 1) /\ text.form = "raw" /\ text.n = k - 1
      BY <2>2, <3>3 DEF Text
    <3>5. TextLen(text) = k - 1
      BY <3>4 DEF TextLen
    <3> HIDE DEF text
    <3> QED
      BY <1>2, <3>4, <3>5
  <2> QED
    BY <2>1, <2>2
<1> HIDE DEF text
<1>4. Sound(d, w)
  BY SoundGrows
<1>6. ASSUME r.d # d PROVE Sound(r.d, w)
  <2>0. ~(r = Stop("hang", d)) /\ r # Failed(d)
    BY <1>6, SimpleOutcomes
  <2>1. CASE d.type = "STRING"
    <3>1. PICK e : e = [valid EXCEPT !.text = IF d.alloc = Null THEN @ ELSE text]
      OBVIOUS
    <3>2. r.d = e
      BY <1>1, <2>0, <2>1, <3>1, SimpleOutcomes
    <3>3. /\ e.len = d.len /\ e.alloc = d.alloc /\ e.type = "STRING" /\ e.size = d.size
          /\ e.lock = d.lock /\ e.cells = d.cells /\ (d.alloc # Null => e.text = text)
          /\ e = [type |-> e.type, live |-> e.live, valid |-> e.valid, num |-> e.num, text |-> e.text,
                  cells |-> e.cells, len |-> e.len, alloc |-> e.alloc, size |-> e.size,
                  lock |-> e.lock, key |-> e.key, key_len |-> e.key_len]
      BY <2>1, <3>1 DEF Sound, IsObj
    <3>4. "raw bytes" \in w
      BY <2>1
    <3> HIDE DEF w
    <3>5. Sound(e, w)
      BY <1>3, <2>1, <3>3, <3>4 DEF Sound, IsObj, StringSound, ArraySound, Readable, BufferTypes
    <3> QED
      BY <3>2, <3>5 DEF w
  <2>2. CASE d.type = "BYTE_ARRAY"
    <3>1. PICK e : e = [valid EXCEPT !.cells = IF d.alloc = Null THEN @ ELSE SubSeq(cells, 1, d.len),
                                     !.text = NoText]
      OBVIOUS
    <3>2. r.d = e
      BY <1>1, <2>0, <2>2, <3>1, SimpleOutcomes
    <3>3. /\ e.len = d.len /\ e.alloc = d.alloc /\ e.type = "BYTE_ARRAY" /\ e.size = d.size
          /\ e.lock = d.lock /\ (d.alloc # Null => e.cells = SubSeq(cells, 1, d.len))
          /\ e = [type |-> e.type, live |-> e.live, valid |-> e.valid, num |-> e.num, text |-> e.text,
                  cells |-> e.cells, len |-> e.len, alloc |-> e.alloc, size |-> e.size,
                  lock |-> e.lock, key |-> e.key, key_len |-> e.key_len]
      BY <2>2, <3>1 DEF Sound, IsObj
    <3>4. d.alloc # Null => Len(e.cells) = d.len
      BY <1>2, <3>3, PrefixLen
    <3>5. Sound(e, w)
      BY <2>2, <3>3, <3>4 DEF Sound, IsObj, StringSound, ArraySound, Readable, BufferTypes
    <3> QED
      BY <3>2, <3>5
  <2>3. CASE d.type \notin {"NULL", "STRING", "BYTE_ARRAY"}
    <3>1. PICK n : n = FromImage(d.type, SubSeq(cells, 1, Size[d.type]))
      OBVIOUS
    <3>2. r.d = [valid EXCEPT !.num = n]
      BY <1>1, <2>0, <2>3, <3>1, SimpleOutcomes
    <3>3. PICK e : e = [d EXCEPT !.num = n, !.valid = TRUE]
      OBVIOUS
    <3>4. r.d = e
      BY <3>2, <3>3 DEF Sound, IsObj
    <3>5. Sound(e, w)
      BY <1>4, <2>3, <3>3, NumSound
    <3> QED
      BY <3>4, <3>5
  <2>4. CASE d.type = "NULL"
    BY <1>1, <2>0, <2>4
  <2> QED
    BY <2>1, <2>2, <2>3, <2>4
<1>7. ASSUME r.d = d PROVE Sound(r.d, w)
  BY <1>4, <1>7
<1>8. Returns(r)
  <2>1. CASE r = Stop("hang", d) /\ d.lock /\ d.type = "BYTE_ARRAY"
    BY <2>1, SimpleOutcomes DEF Returns, Stops
  <2>2. CASE ~(r = Stop("hang", d) /\ d.lock /\ d.type = "BYTE_ARRAY")
    <3>1. PICK e, x, c, n :
            /\ r = Failed(e)
            /\ \/ e = d \/ e = [valid EXCEPT !.text = x] \/ e = [valid EXCEPT !.num = n]
               \/ e = [valid EXCEPT !.cells = c, !.text = x]
      BY <1>1, <2>2
    <3>2. e.lock = d.lock /\ e.type = d.type
      BY <3>1 DEF Sound, IsObj
    <3> QED
      BY <3>1, <3>2, SimpleOutcomes DEF Returns, Usable
  <2> QED
    BY <2>1, <2>2
<1> QED
  BY <1>6, <1>7, <1>8

\* Taking the lock leaves an object sound.
LEMMA LockSound ==
  ASSUME NEW d, NEW m, Sound(d, m), NEW e, e = d \/ e = [d EXCEPT !.lock = TRUE]
  PROVE  Sound(e, m)
<1>1. CASE e = d
  BY <1>1
<1>2. CASE e = [d EXCEPT !.lock = TRUE]
  BY <1>2 DEF Sound, IsObj, StringSound, ArraySound, Readable
<1> QED
  BY <1>1, <1>2

LEMMA SetKeySound ==
  ASSUME NEW d, NEW m, Sound(d, m), Usable(d), NEW n, NEW r \in cplus_data_set_key(d, n)
  PROVE  Sound(r.d, m) /\ Returns(r)
<1>1. /\ \/ r.d = d
         \/ \E k : r.d = [d EXCEPT !.key = k]
         \/ \E k, j : r.d = [d EXCEPT !.key_len = j, !.key = k]
      /\ r.ret \in {"SUCCESS", "FAIL"} \/ (r.ret = "hang" /\ r.d = d /\ d.lock /\ d.type = "BYTE_ARRAY")
  <2>1. CASE r = Stop("hang", d) /\ d.lock /\ d.type = "BYTE_ARRAY"
    <3>1. r.d = d /\ r.ret = "hang"
      BY <2>1, SimpleOutcomes
    <3> QED
      BY <2>1, <3>1
  <2>2. CASE \E k : r = Got([d EXCEPT !.key = k], 0)
    <3>1. PICK k : r = Got([d EXCEPT !.key = k], 0)
      BY <2>2
    <3>2. PICK e : e = [d EXCEPT !.key = k]
      OBVIOUS
    <3>3. r.d = e /\ r.ret \in {"SUCCESS", "FAIL"}
      BY <3>1, <3>2, SimpleOutcomes
    <3> QED
      BY <3>2, <3>3
  <2>3. CASE \E k, j : r = Got([d EXCEPT !.key_len = j, !.key = k], 0)
                       \/ r = Failed([d EXCEPT !.key_len = j, !.key = k])
    <3>1. PICK k, j : \/ r = Got([d EXCEPT !.key_len = j, !.key = k], 0)
                      \/ r = Failed([d EXCEPT !.key_len = j, !.key = k])
      BY <2>3
    <3>2. PICK e : e = [d EXCEPT !.key_len = j, !.key = k]
      OBVIOUS
    <3>3. r.d = e /\ r.ret \in {"SUCCESS", "FAIL"}
      BY <3>1, <3>2, SimpleOutcomes
    <3> QED
      BY <3>2, <3>3
  <2>4. \/ r = Stop("hang", d) /\ d.lock /\ d.type = "BYTE_ARRAY"
        \/ \E k : r = Got([d EXCEPT !.key = k], 0)
        \/ \E k, j : r = Got([d EXCEPT !.key_len = j, !.key = k], 0)
                     \/ r = Failed([d EXCEPT !.key_len = j, !.key = k])
    <3>0. PICK u : u = Released(Taken(d, DataTypes), DataTypes)
      OBVIOUS
    <3> DEFINE O == IF n + 1 <= d.key_len
                    THEN {Got([u EXCEPT !.key = IF @ = Null THEN Null ELSE n], 0)}
                    ELSE {IF a = Null
                          THEN Failed([u EXCEPT !.key_len = n + 1, !.key = Null])
                          ELSE Got([u EXCEPT !.key_len = n + 1, !.key = n], 0)
                          : a \in Allocate(n + 1)}
    <3>1. r \in Spin(d, DataTypes, O)
      BY <3>0 DEF cplus_data_set_key
    <3> HIDE DEF O
    <3>2. (r = Stop("hang", d) /\ d.lock /\ d.type = "BYTE_ARRAY") \/ (r \in O /\ u = d)
      BY <3>0, <3>1, SpinOutcome DEF Sound
    <3> QED
      BY <3>2 DEF O
  <2> QED
    BY <2>1, <2>2, <2>3, <2>4
<1>2. PICK e : e = r.d
  OBVIOUS
<1>3. /\ e.len = d.len /\ e.alloc = d.alloc /\ e.text = d.text /\ e.type = d.type /\ e.size = d.size
      /\ e.lock = d.lock /\ e.cells = d.cells /\ e.valid = d.valid
      /\ e = [type |-> e.type, live |-> e.live, valid |-> e.valid, num |-> e.num, text |-> e.text,
              cells |-> e.cells, len |-> e.len, alloc |-> e.alloc, size |-> e.size,
              lock |-> e.lock, key |-> e.key, key_len |-> e.key_len]
  BY <1>1, <1>2 DEF Sound, IsObj
<1>4. Sound(e, m)
  BY <1>3 DEF Sound, IsObj, StringSound, ArraySound, Readable
<1>5. Returns(r)
  BY <1>1, <1>2, <1>3 DEF Returns, Usable, Stops
<1> QED
  BY <1>2, <1>4, <1>5

----------------------------------------------------------------------------
(* Cloning.                                                                *)

\* A sequence that is filled up has the length that was asked for.
LEMMA FillLen ==
  ASSUME NEW c, NEW n \in Nat, NEW f \in Fill(c, n)
  PROVE  Len(f) = n
<1>1. PICK b : f = [i \in 1..n |-> IF i <= Len(c) THEN c[i] ELSE b]
  BY DEF Fill
<1>2. DOMAIN f = 1..n
  BY <1>1
<1>3. f \in [1..n -> {f[i] : i \in 1..n}]
  BY <1>1
<1>4. f \in Seq({f[i] : i \in 1..n})
  BY <1>3
<1> QED
  BY <1>2, <1>4, LenProperties

\* e is the destination, large enough, when the copy starts.
Room(e, s, m) ==
  /\ IsObj(e) /\ StringSound(e, m) /\ e.type = s.type /\ e.type \in BufferTypes
  /\ e.alloc # Null
  /\ e.type = "STRING" => s.len <= e.len
  /\ e.type = "BYTE_ARRAY" => e.len <= e.size /\ e.size <= e.alloc

\* What the copy leaves behind: the cells are replaced, and the text with them.
CopyOf(e, s, f) ==
  LET n == IF s.type = "STRING" THEN 0 ELSE e.len
  IN \/ \E c \in Fill(e.cells, n) : f = [e EXCEPT !.cells = c]
     \/ s.alloc # Null /\ \E c \in Fill(s.cells, n) : f = [e EXCEPT !.text = s.text, !.cells = c]

LEMMA CopySound ==
  ASSUME NEW e, NEW s, NEW f, NEW m, NEW ms, Sound(s, ms), Room(e, s, m), CopyOf(e, s, f)
  PROVE  Sound(f, m \cup ms)
<1>1. PICK n \in Nat : n = IF s.type = "STRING" THEN 0 ELSE e.len
  BY DEF Room, IsObj
<1>2. PICK c : \/ c \in Fill(e.cells, n) /\ f = [e EXCEPT !.cells = c]
               \/ c \in Fill(s.cells, n) /\ s.alloc # Null /\ f = [e EXCEPT !.text = s.text, !.cells = c]
  BY <1>1 DEF CopyOf
<1>3. Len(c) = n
  BY <1>2, FillLen
<1>4. /\ f.len = e.len /\ f.alloc = e.alloc /\ f.type = e.type /\ f.size = e.size
      /\ f.lock = e.lock /\ f.cells = c
      /\ f.text = e.text \/ (s.alloc # Null /\ f.text = s.text)
      /\ f = [type |-> f.type, live |-> f.live, valid |-> f.valid, num |-> f.num, text |-> f.text,
              cells |-> f.cells, len |-> f.len, alloc |-> f.alloc, size |-> f.size,
              lock |-> f.lock, key |-> f.key, key_len |-> f.key_len]
  BY <1>2 DEF Room, IsObj
<1>5. CASE e.type = "STRING"
  <2>1. e.len \in Nat /\ s.len \in Nat /\ s.len <= e.len /\ s.type = "STRING"
    BY <1>5 DEF Room, IsObj, Sound
  <2>2. f.text.form = "open" \/ (TextLen(f.text) \in Nat /\ TextLen(f.text) < e.len)
    <3>1. CASE f.text = e.text
      BY <1>5, <3>1 DEF Room, StringSound
    <3>2. CASE s.alloc # Null /\ f.text = s.text
      <4>1. f.text.form = "open" \/ (TextLen(f.text) \in Nat /\ TextLen(f.text) < s.len)
        BY <2>1, <3>2 DEF Sound, StringSound
      <4> QED
        BY <2>1, <4>1
    <3> QED
      BY <1>4, <3>1, <3>2
  <2>3. f.text.form = "open" => "raw bytes" \in m \cup ms
    BY <1>4, <1>5, <2>1 DEF Room, Sound, StringSound
  <2> QED
    BY <1>4, <1>5, <2>2, <2>3 DEF Room, Sound, IsObj, StringSound, ArraySound, Readable, BufferTypes
<1>6. CASE e.type = "BYTE_ARRAY"
  <2>1. n = e.len
    BY <1>1, <1>6 DEF Room
  <2> QED
    BY <1>3, <1>4, <1>6, <2>1 DEF Room, Sound, IsObj, StringSound, ArraySound, Readable, BufferTypes
<1> QED
  BY <1>5, <1>6 DEF Room, BufferTypes

LEMMA CloneSound ==
  ASSUME NEW d, NEW s, NEW m, NEW ms, Sound(d, m), Sound(s, ms),
         NEW r \in cplus_data_clone_value(d, s)
  PROVE  Sound(r.d, m \cup (ms \cup IF d.alloc = Null THEN {} ELSE LostOf(r.d)))
<1> DEFINE grows == IF d.type = "STRING" THEN s.len > d.len ELSE s.size > d.size
           space == IF d.type = "STRING" THEN s.len ELSE s.size
           bytes(e) == IF d.type = "STRING" THEN 0 ELSE e.len
           Copied(e) ==
             CASE s.alloc = Null \/ e.len = 0 ->
                    {Got([e EXCEPT !.cells = c], 0) : c \in Fill(e.cells, bytes(e))}
               [] s.alloc # Null /\ e.len > s.alloc -> {Stop("overread", e)}
               [] OTHER -> {Outcome("SUCCESS", [e EXCEPT !.text = s.text, !.cells = c], 0,
                                    d.type = "STRING" \/ e.len >= s.len)
                            : c \in Fill(s.cells, bytes(e))}
           more == ms \cup IF d.alloc = Null THEN {} ELSE LostOf(r.d)
<1>0. Sound(d, m \cup more) /\ (d.len \in Nat /\ d.size \in Nat /\ d.alloc \in Nat \cup {Null})
      /\ (s.len \in Nat /\ s.size \in Nat /\ s.alloc \in Nat \cup {Null})
  BY SoundGrows DEF Sound, IsObj
<1>1. CASE d.type # s.type
  <2>1. r = Failed(d)
    BY <1>1 DEF cplus_data_clone_value
  <2> QED
    BY <1>0, <2>1, SimpleOutcomes
<1>2. CASE d.type = s.type /\ d.type \notin BufferTypes
  <2>1. r = Outcome("SUCCESS", [d EXCEPT !.num = s.num], 0, TRUE)
    BY <1>2 DEF cplus_data_clone_value
  <2>2. PICK e : e = [d EXCEPT !.num = s.num]
    OBVIOUS
  <2>3. r.d = e
    BY <2>1, <2>2 DEF Outcome
  <2>4. /\ e.len = d.len /\ e.alloc = d.alloc /\ e.type = d.type /\ e.size = d.size
        /\ e.lock = d.lock
        /\ e = [type |-> e.type, live |-> e.live, valid |-> e.valid, num |-> e.num, text |-> e.text,
                cells |-> e.cells, len |-> e.len, alloc |-> e.alloc, size |-> e.size,
                lock |-> e.lock, key |-> e.key, key_len |-> e.key_len]
    BY <2>2 DEF Sound, IsObj
  <2>5. Sound(e, m)
    BY <1>2, <2>4, TypeFacts DEF Sound, IsObj, StringSound, ArraySound, Readable
  <2> QED
    BY <2>3, <2>5, SoundGrows
<1>3. ASSUME NEW e, Room(e, s, m), r \in Copied(e), d.type = s.type,
             s.alloc # Null /\ e.len > s.alloc => Sound(e, m)
      PROVE  Sound(r.d, m \cup more)
  <2>1. \/ s.alloc # Null /\ e.len > s.alloc /\ r = Stop("overread", e)
        \/ CopyOf(e, s, r.d)
    <3>1. CASE s.alloc = Null \/ e.len = 0
      <4>0. r \in {Got([e EXCEPT !.cells = c], 0) : c \in Fill(e.cells, bytes(e))}
        <5> DEFINE G == {Got([e EXCEPT !.cells = c], 0) : c \in Fill(e.cells, bytes(e))}
                   F == {Outcome("SUCCESS", [e EXCEPT !.text = s.text, !.cells = c], 0,
                                 d.type = "STRING" \/ e.len >= s.len)
                         : c \in Fill(s.cells, bytes(e))}
        <5>1. r \in CASE s.alloc = Null \/ e.len = 0 -> G
                    [] s.alloc # Null /\ e.len > s.alloc -> {Stop("overread", e)}
                    [] OTHER -> F
          BY <1>3
        <5> HIDE DEF G, F
        <5>2. s.alloc # Null /\ e.len = 0 => ~(e.len > s.alloc)
          BY <1>0
        <5>3. r \in G
          BY <3>1, <5>1, <5>2
        <5> QED
          BY <5>3 DEF G
      <4>1. PICK c \in Fill(e.cells, bytes(e)) : r = Got([e EXCEPT !.cells = c], 0)
        BY <4>0
      <4>2. PICK f : f = [e EXCEPT !.cells = c]
        OBVIOUS
      <4>3. r.d = f
        BY <4>1, <4>2, SimpleOutcomes
      <4> QED
        BY <1>3, <4>1, <4>2, <4>3 DEF CopyOf
    <3>2. CASE s.alloc # Null /\ e.len # 0 /\ e.len > s.alloc
      BY <1>3, <3>2
    <3>3. CASE s.alloc # Null /\ e.len # 0 /\ ~(e.len > s.alloc)
      <4>1. PICK c \in Fill(s.cells, bytes(e)) :
              r = Outcome("SUCCESS", [e EXCEPT !.text = s.text, !.cells = c], 0,
                          d.type = "STRING" \/ e.len >= s.len)
        BY <1>3, <3>3
      <4>2. PICK f : f = [e EXCEPT !.text = s.text, !.cells = c]
        OBVIOUS
      <4>3. r.d = f
        BY <4>1, <4>2 DEF Outcome
      <4> QED
        BY <1>3, <3>3, <4>1, <4>2, <4>3 DEF CopyOf
    <3> QED
      BY <3>1, <3>2, <3>3
  <2>2. CASE CopyOf(e, s, r.d)
    <3>1. Sound(r.d, m \cup ms)
      BY <1>3, <2>2, CopySound
    <3>2. m \cup more = (m \cup ms) \cup more
      OBVIOUS
    <3> QED
      BY <3>1, <3>2, SoundGrows
  <2>3. CASE s.alloc # Null /\ e.len > s.alloc /\ r = Stop("overread", e)
    <3>1. r.d = e
      BY <2>3, SimpleOutcomes
    <3>2. Sound(e, m)
      BY <1>3, <2>3
    <3> HIDE DEF more
    <3> QED
      BY <3>1, <3>2, SoundGrows
  <2> QED
    BY <2>1, <2>2, <2>3
<1>4. CASE d.type = s.type /\ d.type \in BufferTypes /\ ~grows
  <2>1. r \in IF d.alloc = Null THEN {Got(d, 0)} ELSE Copied(d)
    BY <1>4 DEF cplus_data_clone_value
  <2>2. CASE d.alloc = Null
    <3>1. r = Got(d, 0)
      BY <2>1, <2>2
    <3> QED
      BY <1>0, <3>1, SimpleOutcomes
  <2>3. CASE d.alloc # Null
    <3>1. Room(d, s, m)
      BY <1>0, <1>4, <2>3 DEF Room, Sound, ArraySound
    <3> HIDE DEF Copied
    <3> QED
      BY <1>3, <1>4, <2>1, <2>3, <3>1
  <2> QED
    BY <2>2, <2>3
<1>5. CASE d.type = s.type /\ d.type \in BufferTypes /\ grows
  <2>1. PICK a \in IF d.alloc = Null THEN {Null} ELSE Allocate(space) :
          r \in IF a = Null
                THEN {Failed([d EXCEPT !.alloc = Null, !.cells = <<>>, !.text = NoText])}
                ELSE Copied([d EXCEPT !.alloc = a, !.len = s.len, !.size = s.size])
    BY <1>5 DEF cplus_data_clone_value
  <2>2. CASE a = Null
    <3>1. PICK e : e = [d EXCEPT !.alloc = Null, !.cells = <<>>, !.text = NoText]
      OBVIOUS
    <3>2. r = Failed(e)
      BY <2>1, <2>2, <3>1
    <3>3. r.d = e
      BY <3>2, SimpleOutcomes
    <3>4. /\ e.len = d.len /\ e.alloc = Null /\ e.type = d.type /\ e.size = d.size
          /\ e.lock = d.lock /\ e.valid = d.valid
          /\ e = [type |-> e.type, live |-> e.live, valid |-> e.valid, num |-> e.num, text |-> e.text,
                  cells |-> e.cells, len |-> e.len, alloc |-> e.alloc, size |-> e.size,
                  lock |-> e.lock, key |-> e.key, key_len |-> e.key_len]
      BY <3>1 DEF Sound, IsObj
    <3>5. d.alloc # Null => "no memory" \in more
      BY <1>5, <3>3, <3>4 DEF LostOf
    <3>6. Readable(e, m \cup more)
      BY <3>4, <3>5 DEF Readable, Sound
    <3> HIDE DEF more
    <3>7. Sound(e, m \cup more)
      BY <3>4, <3>6 DEF Sound, IsObj, StringSound, ArraySound
    <3> QED
      BY <3>3, <3>7 DEF more
  <2>3. CASE a # Null
    <3>1. a = space /\ a \in Nat /\ d.alloc # Null
      BY <1>0, <2>1, <2>3, AllocateFacts
    <3>2. PICK e : e = [d EXCEPT !.alloc = a, !.len = s.len, !.size = s.size]
      OBVIOUS
    <3>3. /\ e.len = s.len /\ e.alloc = a /\ e.type = d.type /\ e.size = s.size
          /\ e.lock = d.lock /\ e.text = d.text
          /\ e = [type |-> e.type, live |-> e.live, valid |-> e.valid, num |-> e.num, text |-> e.text,
                  cells |-> e.cells, len |-> e.len, alloc |-> e.alloc, size |-> e.size,
                  lock |-> e.lock, key |-> e.key, key_len |-> e.key_len]
      BY <3>2 DEF Sound, IsObj
    <3>4. e.type = "STRING" => s.len > d.len /\ a = s.len
      BY <1>5, <3>1, <3>3
    <3>5. e.type = "BYTE_ARRAY" => a = s.size /\ s.len <= s.size
      BY <1>5, <3>1, <3>3 DEF Sound, ArraySound
    <3>6. Room(e, s, m)
      <4>1. IsObj(e)
        BY <1>0, <3>1, <3>3 DEF Sound, IsObj
      <4>2. StringSound(e, m)
        <5>1. StringSound(d, m)
          BY DEF Sound
        <5> HIDE DEF grows, space, bytes, Copied, more
        <5>2. ASSUME e.type = "STRING" PROVE StringSound(e, m)
          <6>1. /\ d.text.form = "open" \/ (TextLen(d.text) \in Nat /\ TextLen(d.text) < d.len)
                /\ d.text.form = "open" => "raw bytes" \in m
            BY <3>1, <3>3, <5>1, <5>2 DEF StringSound
          <6>2. e.len <= e.alloc
            BY <1>0, <3>3, <3>4, <5>2
          <6>3. d.text.form = "open" \/ (TextLen(d.text) \in Nat /\ TextLen(d.text) < e.len)
            <7>1. PICK dl \in Nat, sl \in Nat : dl = d.len /\ sl = s.len
              BY <1>0
            <7>2. dl < sl /\ e.len = sl
              BY <3>3, <3>4, <5>2, <7>1
            <7>3. CASE d.text.form # "open"
              <8>1. PICK k \in Nat : k = TextLen(d.text)
                BY <6>1, <7>3
              <8>2. k < dl
                BY <6>1, <7>1, <7>3, <8>1
              <8>3. k < sl
                BY ONLY <7>2, <8>2, dl \in Nat, sl \in Nat, k \in Nat
              <8> QED
                BY <7>2, <8>1, <8>3
            <7> QED
              BY <7>3
          <6> QED
            BY <3>3, <6>1, <6>2, <6>3 DEF StringSound
        <5> QED
          BY <5>2 DEF StringSound
      <4> QED
        BY <1>0, <1>5, <2>3, <3>3, <3>4, <3>5, <4>1, <4>2 DEF Room, Sound
    <3>7. ~(s.alloc # Null /\ e.len > s.alloc)
      <4>1. CASE s.type = "STRING"
        <5>1. s.alloc # Null => s.len <= s.alloc
          BY <4>1 DEF Sound, StringSound
        <5> QED
          BY <1>0, <3>3, <5>1
      <4>2. CASE s.type = "BYTE_ARRAY"
        <5>1. s.alloc # Null => s.len <= s.alloc
          <6>1. s.len <= s.size /\ (s.alloc # Null => s.size <= s.alloc)
            BY <4>2 DEF Sound, ArraySound
          <6> QED
            BY <1>0, <6>1
        <5> QED
          BY <1>0, <3>3, <5>1
      <4> QED
        BY <1>5, <4>1, <4>2, TypeFacts
    <3> HIDE DEF Copied
    <3>8. r \in Copied(e)
      <4>1. r \in Copied([d EXCEPT !.alloc = a, !.len = s.len, !.size = s.size])
        BY <2>1, <2>3
      <4> QED
        BY <3>2, <4>1
    <3> QED
      BY <1>3, <1>5, <3>6, <3>7, <3>8
  <2> QED
    BY <2>2, <2>3
<1> QED
  BY <1>1, <1>2, <1>4, <1>5

\* Cloning takes no lock.
LEMMA CloneReturns ==
  ASSUME NEW d, NEW s, IsObj(d), Usable(d), NEW r \in cplus_data_clone_value(d, s)
  PROVE  Returns(r)
<1> DEFINE bytes(e) == IF d.type = "STRING" THEN 0 ELSE e.len
           Copied(e) ==
             CASE s.alloc = Null \/ e.len = 0 ->
                    {Got([e EXCEPT !.cells = c], 0) : c \in Fill(e.cells, bytes(e))}
               [] s.alloc # Null /\ e.len > s.alloc -> {Stop("overread", e)}
               [] OTHER -> {Outcome("SUCCESS", [e EXCEPT !.text = s.text, !.cells = c], 0,
                                    d.type = "STRING" \/ e.len >= s.len)
                            : c \in Fill(s.cells, bytes(e))}
<1>1. \/ r = Failed(d) \/ r = Got(d, 0)
      \/ r = Outcome("SUCCESS", [d EXCEPT !.num = s.num], 0, TRUE)
      \/ r = Failed([d EXCEPT !.alloc = Null, !.cells = <<>>, !.text = NoText])
      \/ r \in Copied(d)
      \/ \E a : r \in Copied([d EXCEPT !.alloc = a, !.len = s.len, !.size = s.size])
  <2> DEFINE grows == IF d.type = "STRING" THEN s.len > d.len ELSE s.size > d.size
             space == IF d.type = "STRING" THEN s.len ELSE s.size
  <2>1. r \in CASE d.type # s.type -> {Failed(d)}
               [] d.type = s.type /\ d.type \notin BufferTypes ->
                    {Outcome("SUCCESS", [d EXCEPT !.num = s.num], 0, TRUE)}
               [] d.type = s.type /\ d.type \in BufferTypes /\ ~grows ->
                    IF d.alloc = Null THEN {Got(d, 0)} ELSE Copied(d)
               [] OTHER ->
                    UNION {IF a = Null
                           THEN {Failed([d EXCEPT !.alloc = Null, !.cells = <<>>, !.text = NoText])}
                           ELSE Copied([d EXCEPT !.alloc = a, !.len = s.len, !.size = s.size])
                           : a \in IF d.alloc = Null THEN {Null} ELSE Allocate(space)}
    BY DEF cplus_data_clone_value
  <2> HIDE DEF Copied, grows, space
  <2> QED
    BY <2>1
<1>2. ASSUME NEW e, NEW how, e.lock = d.lock, e.type = d.type, r.d = e, r.ret = how,
             how \in {"SUCCESS", "FAIL", "overread"}
      PROVE  Returns(r)
  BY <1>2 DEF Returns, Usable
<1>3. ASSUME NEW e, IsRecord(e), e.lock = d.lock, e.type = d.type, r \in Copied(e) PROVE Returns(r)
  <2>1. PICK f, c : /\ \/ r.ret = "SUCCESS" \/ r.ret = "overread"
                    /\ r.d = f
                    /\ f = e \/ f = [e EXCEPT !.cells = c] \/ f = [e EXCEPT !.text = s.text, !.cells = c]
    <3>1. \/ \E c : r = Got([e EXCEPT !.cells = c], 0)
          \/ r = Stop("overread", e)
          \/ \E c, k : r = Outcome("SUCCESS", [e EXCEPT !.text = s.text, !.cells = c], 0, k)
      BY <1>3
    <3>2. ASSUME NEW f, NEW k, r = Outcome("SUCCESS", f, 0, k) \/ r = Stop("overread", f)
          PROVE  r.d = f /\ (r.ret = "SUCCESS" \/ r.ret = "overread")
      BY <3>2 DEF Stop, Outcome
    <3> QED
      BY <3>1, <3>2 DEF Got
  <2>2. f.lock = d.lock /\ f.type = d.type
    BY <1>3, <2>1 DEF IsRecord
  <2> QED
    BY <1>2, <2>1, <2>2
<1> HIDE DEF Copied
<1>4. CASE r = Failed(d) \/ r = Got(d, 0)
  <2>1. r.d = d /\ r.ret \in {"SUCCESS", "FAIL"}
    BY <1>4, SimpleOutcomes
  <2> QED
    BY <1>2, <2>1
<1>5. CASE \/ r = Outcome("SUCCESS", [d EXCEPT !.num = s.num], 0, TRUE)
           \/ r = Failed([d EXCEPT !.alloc = Null, !.cells = <<>>, !.text = NoText])
  <2>1. PICK e : /\ e = [d EXCEPT !.num = s.num] \/ e = [d EXCEPT !.alloc = Null, !.cells = <<>>, !.text = NoText]
                 /\ r = Outcome("SUCCESS", e, 0, TRUE) \/ r = Failed(e)
    BY <1>5
  <2>2. e.lock = d.lock /\ e.type = d.type
    BY <2>1 DEF IsObj
  <2>3. r.d = e /\ r.ret \in {"SUCCESS", "FAIL"}
    BY <2>1 DEF Outcome, Failed
  <2> QED
    BY <1>2, <2>2, <2>3
<1>6. ASSUME NEW a, r \in Copied([d EXCEPT !.alloc = a, !.len = s.len, !.size = s.size])
      PROVE  Returns(r)
  <2>1. PICK e : e = [d EXCEPT !.alloc = a, !.len = s.len, !.size = s.size]
    OBVIOUS
  <2>2. IsRecord(e) /\ e.lock = d.lock /\ e.type = d.type
    BY <2>1 DEF IsObj, IsRecord
  <2> QED
    BY <1>3, <1>6, <2>1, <2>2
<1>7. IsRecord(d)
  BY DEF IsObj, IsRecord
<1> QED
  BY <1>1, <1>3, <1>4, <1>5, <1>6, <1>7

----------------------------------------------------------------------------
(* The getters.                                                            *)

\* A getter leaves the object as it is but for its lock, and dereferences NULL
\* only to read a string that has no buffer.
Leaves(r, d) == (r.d = d \/ r.d = [d EXCEPT !.lock = TRUE]) /\ (Usable(d) => Returns(r))
Reads(r, d) == Leaves(r, d) /\ (r.ret = "null" => d.type = "STRING" /\ d.alloc = Null)

LEMMA SimpleReads ==
  ASSUME NEW d, IsObj(d)
  PROVE  /\ Reads(Failed(d), d) /\ \A v : Reads(Got(d, v), d)
         /\ d.lock => Reads(Stop("hang", d), d)
         /\ \A e : e = d \/ e = [d EXCEPT !.lock = TRUE] =>
              /\ Reads(Stop("overread", e), d) /\ Reads(Stop("overwrite", e), d)
              /\ Leaves(Stop("null", e), d)
              /\ d.type = "STRING" /\ d.alloc = Null => Reads(Stop("null", e), d)
              /\ d.type = "BYTE_ARRAY" => Reads(Failed(e), d)
<1>1. Reads(Failed(d), d)
  BY SimpleOutcomes DEF Reads, Leaves, Returns
<1>2. ASSUME NEW v PROVE Reads(Got(d, v), d)
  BY SimpleOutcomes DEF Reads, Leaves, Returns
<1>3. ASSUME d.lock PROVE Reads(Stop("hang", d), d)
  BY <1>3, SimpleOutcomes DEF Reads, Leaves, Returns, Usable, Stops
<1>4. ASSUME NEW e, e = d \/ e = [d EXCEPT !.lock = TRUE]
      PROVE  /\ Reads(Stop("overread", e), d) /\ Reads(Stop("overwrite", e), d)
             /\ Leaves(Stop("null", e), d)
             /\ d.type = "STRING" /\ d.alloc = Null => Reads(Stop("null", e), d)
             /\ d.type = "BYTE_ARRAY" => Reads(Failed(e), d)
  <2>0. ASSUME NEW how, how \in {"overread", "overwrite", "null"}
        PROVE  Leaves(Stop(how, e), d) /\ Stop(how, e).ret = how
    <3>1. PICK r : r = Stop(how, e)
      OBVIOUS
    <3>2. r.d = e /\ r.ret = how
      BY <3>1, SimpleOutcomes
    <3>3. Returns(r)
      BY <2>0, <3>2 DEF Returns, Stops
    <3> QED
      BY <1>4, <3>1, <3>2, <3>3 DEF Leaves
  <2>1. Reads(Stop("overread", e), d)
    BY <2>0 DEF Reads
  <2>2. Reads(Stop("overwrite", e), d)
    BY <2>0 DEF Reads
  <2>3. /\ Leaves(Stop("null", e), d)
        /\ d.type = "STRING" /\ d.alloc = Null => Reads(Stop("null", e), d)
    BY <2>0 DEF Reads
  <2>4. ASSUME d.type = "BYTE_ARRAY" PROVE Reads(Failed(e), d)
    <3>1. e.type = "BYTE_ARRAY"
      BY <1>4, <2>4 DEF IsObj
    <3> QED
      BY <1>4, <3>1, SimpleOutcomes DEF Reads, Leaves, Returns, Usable
  <2> QED
    BY <2>1, <2>2, <2>3, <2>4
<1> QED
  BY <1>1, <1>2, <1>3, <1>4

LEMMA GetAsBoolReads ==
  ASSUME NEW d, IsObj(d), NEW r \in cplus_data_get_as_bool(d)
  PROVE  Reads(r, d)
<1> DEFINE T == Slow \cup BufferTypes
           u == Released(Taken(d, T), T)
           O == CASE d.type = "NULL" -> {Failed(d)}
                  [] d.type = "STRING" ->
                       {IF d.alloc # Null /\ d.text \in {True, False}
                        THEN Got(u, IF d.text = True THEN 1 ELSE 0) ELSE Failed(u)}
                  [] d.type = "BYTE_ARRAY" ->
                       {IF d.alloc = Null \/ d.len = 0 THEN Failed(u)
                        ELSE Got(u, IF d.cells[1] > 0 THEN 1 ELSE 0)}
                  [] OTHER -> {Got(u, IF d.num # 0 THEN 1 ELSE 0)}
<1>1. r \in Spin(d, T, O)
  BY DEF cplus_data_get_as_bool
<1> HIDE DEF T, u, O
<1>2. \/ r = Stop("hang", d) /\ d.lock
      \/ r \in O /\ u = d
  BY <1>1, SpinReads DEF u
<1>3. ASSUME r \in O, u = d PROVE r = Failed(d) \/ \E v : r = Got(d, v)
  BY <1>3 DEF O
<1> QED
  BY <1>2, <1>3, SimpleReads

LEMMA GetAsIntReads ==
  ASSUME NEW d, IsObj(d), NEW s, NEW fmt,
         NEW r \in GetAsInt(d, s, fmt)
  PROVE  Reads(r, d)
<1> DEFINE T == Slow \cup BufferTypes
           e == Taken(d, T)
           u == Released(e, T)
           U == IF ScanInt(fmt, e.text) = {} THEN {Failed(u)}
                ELSE {Got(u, Wrap(s, n)) : n \in ScanInt(fmt, e.text)}
           O == CASE d.type = "NULL" -> {Failed(d)}
                  [] d.type = "STRING" ->
                       CASE e.alloc = Null -> {Stop("null", e)}
                         [] e.text.form = "open" -> {Stop("overread", e)}
                         [] OTHER -> U
                  [] d.type = "BYTE_ARRAY" -> Overlay(u, s)
                  [] OTHER -> UNION {{Got(u, n) : n \in Cast(s, d.type, v)} : v \in Scalar(d)}
<1>1. r \in Spin(d, T, O)
  BY DEF GetAsInt, WithText
<1> HIDE DEF T, e, u, O
<1>2. \/ r = Stop("hang", d) /\ d.lock
      \/ r \in O /\ u = d
  BY <1>1, SpinReads DEF e, u
<1>3. /\ e = d \/ e = [d EXCEPT !.lock = TRUE]
      /\ e.type = d.type /\ e.alloc = d.alloc /\ e.text = d.text
  BY TakenFacts DEF e
<1>4. ASSUME r \in O, u = d PROVE Reads(r, d)
  <2>1. CASE d.type = "STRING"
    <3>1. \/ r = Stop("null", e) /\ d.alloc = Null
          \/ r = Stop("overread", e) \/ r \in U
      BY <1>3, <1>4, <2>1 DEF O
    <3>2. CASE r \in U
      <4>1. r = Failed(d) \/ \E v : r = Got(d, v)
        BY <1>4, <3>2
      <4> QED
        BY <4>1, SimpleReads
    <3> QED
      BY <1>3, <2>1, <3>1, <3>2, SimpleReads
  <2>2. CASE d.type = "BYTE_ARRAY"
    <3>1. \E v : r = Got(d, v)
      BY <1>4, <2>2 DEF O, Overlay
    <3> QED
      BY <3>1, SimpleReads
  <2>3. CASE d.type = "NULL"
    <3>1. r = Failed(d)
      BY <1>4, <2>3 DEF O
    <3> QED
      BY <3>1, SimpleReads
  <2>4. CASE d.type \notin {"NULL", "STRING", "BYTE_ARRAY"}
    <3>1. \E n : r = Got(d, n)
      BY <1>4, <2>4 DEF O
    <3> QED
      BY <3>1, SimpleReads
  <2> QED
    BY <2>1, <2>2, <2>3, <2>4
<1> QED
  BY <1>2, <1>4, SimpleReads

LEMMA GetAsFloatReads ==
  ASSUME NEW d, IsObj(d), NEW s,
         NEW r \in GetAsFloat(d, s)
  PROVE  Reads(r, d)
<1> DEFINE T == AllButNull
           e == Taken(d, T)
           u == Released(e, T)
           U == IF ScanFloat(s, e.text) = {} THEN {Failed(u)}
                ELSE {Got(u, h) : h \in ScanFloat(s, e.text)}
           O == CASE d.type = "NULL" -> {Failed(d)}
                  [] d.type = "STRING" ->
                       CASE e.alloc = Null -> {Stop("null", e)}
                         [] e.text.form = "open" -> {Stop("overread", e)}
                         [] OTHER -> U
                  [] d.type = "BYTE_ARRAY" -> Overlay(u, s)
                  [] OTHER -> UNION {{Got(u, h) : h \in Cast(s, d.type, v)} : v \in Scalar(d)}
<1>1. r \in Spin(d, T, O)
  BY DEF GetAsFloat, WithText
<1> HIDE DEF T, e, u, O
<1>2. \/ r = Stop("hang", d) /\ d.lock
      \/ r \in O /\ u = d
  BY <1>1, SpinReads DEF e, u
<1>3. /\ e = d \/ e = [d EXCEPT !.lock = TRUE]
      /\ e.type = d.type /\ e.alloc = d.alloc /\ e.text = d.text
  BY TakenFacts DEF e
<1>4. ASSUME r \in O, u = d PROVE Reads(r, d)
  <2>1. CASE d.type = "STRING"
    <3>1. \/ r = Stop("null", e) /\ d.alloc = Null
          \/ r = Stop("overread", e) \/ r \in U
      BY <1>3, <1>4, <2>1 DEF O
    <3>2. CASE r \in U
      <4>1. r = Failed(d) \/ \E v : r = Got(d, v)
        BY <1>4, <3>2
      <4> QED
        BY <4>1, SimpleReads
    <3> QED
      BY <1>3, <2>1, <3>1, <3>2, SimpleReads
  <2>2. CASE d.type = "BYTE_ARRAY"
    <3>1. \E v : r = Got(d, v)
      BY <1>4, <2>2 DEF O, Overlay
    <3> QED
      BY <3>1, SimpleReads
  <2>3. CASE d.type = "NULL"
    <3>1. r = Failed(d)
      BY <1>4, <2>3 DEF O
    <3> QED
      BY <3>1, SimpleReads
  <2>4. CASE d.type \notin {"NULL", "STRING", "BYTE_ARRAY"}
    <3>1. \E n : r = Got(d, n)
      BY <1>4, <2>4 DEF O
    <3> QED
      BY <3>1, SimpleReads
  <2> QED
    BY <2>1, <2>2, <2>3, <2>4
<1> QED
  BY <1>2, <1>4, SimpleReads

LEMMA GetAsReads ==
  ASSUME NEW d, IsObj(d), NEW s \in Gettable, NEW r \in get_as(s, d)
  PROVE  Reads(r, d)
<1>1. s \in {"BOOL", "INT8", "INT16", "INT32", "INT64", "UINT8", "UINT16", "UINT32", "UINT64",
             "FLOAT", "DOUBLE"}
  BY DEF Gettable, ScalarTypes, IntTypes, SignedTypes, UnsignedTypes, FloatTypes
<1>2. \/ r \in cplus_data_get_as_bool(d)
      \/ \E t, fmt : r \in GetAsInt(d, t, fmt)
      \/ \E t : r \in GetAsFloat(d, t)
  BY <1>1 DEF get_as, cplus_data_get_as_int8, cplus_data_get_as_int16, cplus_data_get_as_int32,
     cplus_data_get_as_int64, cplus_data_get_as_uint8, cplus_data_get_as_uint16,
     cplus_data_get_as_uint32, cplus_data_get_as_uint64, cplus_data_get_as_float,
     cplus_data_get_as_double
<1> QED
  BY <1>2, GetAsBoolReads, GetAsIntReads, GetAsFloatReads

LEMMA SimpleLeaves ==
  ASSUME NEW d, IsObj(d)
  PROVE  /\ Leaves(Failed(d), d) /\ \A v : Leaves(Got(d, v), d)
         /\ d.lock => Leaves(Stop("hang", d), d)
         /\ \A e : e = d \/ e = [d EXCEPT !.lock = TRUE] =>
              /\ Leaves(Stop("overread", e), d) /\ Leaves(Stop("overwrite", e), d)
              /\ Leaves(Stop("null", e), d)
              /\ d.type = "BYTE_ARRAY" => Leaves(Failed(e), d)
  BY SimpleReads DEF Reads

LEMMA GetValueLeaves ==
  ASSUME NEW d, IsObj(d), NEW cap,
         NEW r \in cplus_data_get_value(d, cap)
  PROVE  Leaves(r, d)
<1> DEFINE T == Slow \cup BufferTypes
           e == Taken(d, T)
           u == Released(e, T)
           O == CASE d.type = "NULL" -> {Failed(d)}
                  [] d.type = "STRING" ->
                       CASE e.alloc = Null -> {Stop("null", e)}
                         [] e.text.form = "open" -> {Stop("overread", e)}
                         [] OTHER -> {IF cap < TextLen(e.text) + 1 THEN Failed(u) ELSE Got(u, e.text)}
                  [] d.type = "BYTE_ARRAY" ->
                       {CASE cap < d.len -> Failed(u)
                          [] cap >= d.len /\ (d.alloc = Null \/ d.len = 0) -> Failed(e)
                          [] OTHER -> Got(u, d.cells)}
                  [] OTHER -> {Got(u, n) : n \in Scalar(d)}
<1>1. r \in Spin(d, T, O)
  BY DEF cplus_data_get_value, WithText
<1> HIDE DEF T, e, u, O
<1>2. \/ r = Stop("hang", d) /\ d.lock
      \/ r \in O /\ u = d
  BY <1>1, SpinReads DEF e, u
<1>3. /\ e = d \/ e = [d EXCEPT !.lock = TRUE]
      /\ e.type = d.type /\ e.alloc = d.alloc /\ e.text = d.text
  BY TakenFacts DEF e
<1>4. ASSUME r \in O, u = d PROVE Leaves(r, d)
  <2>1. CASE d.type = "STRING"
    <3>1. \/ r = Stop("null", e) \/ r = Stop("overread", e)
          \/ r = Failed(d) \/ \E v : r = Got(d, v)
      BY <1>3, <1>4, <2>1 DEF O
    <3> QED
      BY <1>3, <3>1, SimpleLeaves
  <2>2. CASE d.type = "BYTE_ARRAY"
    <3>1. r = Failed(d) \/ r = Failed(e) \/ \E v : r = Got(d, v)
      BY <1>4, <2>2 DEF O
    <3> QED
      BY <1>3, <2>2, <3>1, SimpleLeaves
  <2>3. CASE d.type \notin {"STRING", "BYTE_ARRAY"}
    <3>1. r = Failed(d) \/ \E v : r = Got(d, v)
      BY <1>4, <2>3 DEF O
    <3> QED
      BY <3>1, SimpleLeaves
  <2> QED
    BY <2>1, <2>2, <2>3
<1> QED
  BY <1>2, <1>4, SimpleLeaves

LEMMA GetDataSizeLeaves ==
  ASSUME NEW d, IsObj(d), NEW r \in cplus_data_get_data_size(d)
  PROVE  Leaves(r, d)
<1> DEFINE T == BufferTypes
           e == Taken(d, T)
           u == Released(e, T)
           O == CASE d.type = "NULL" -> {Got(d, 0)}
                  [] d.type = "STRING" ->
                       CASE e.alloc = Null -> {Stop("null", e)}
                         [] e.text.form = "open" -> {Stop("overread", e)}
                         [] OTHER -> {Got(u, TextLen(e.text))}
                  [] d.type = "BYTE_ARRAY" -> {Got(u, d.len)}
                  [] OTHER -> {Got(d, Size[d.type])}
<1>1. r \in Spin(d, T, O)
  BY DEF cplus_data_get_data_size, WithText
<1> HIDE DEF T, e, u, O
<1>2. \/ r = Stop("hang", d) /\ d.lock
      \/ r \in O /\ u = d
  BY <1>1, SpinReads DEF e, u
<1>3. /\ e = d \/ e = [d EXCEPT !.lock = TRUE]
      /\ e.type = d.type /\ e.alloc = d.alloc /\ e.text = d.text
  BY TakenFacts DEF e
<1>4. ASSUME r \in O, u = d PROVE Leaves(r, d)
  <2>1. CASE d.type = "STRING"
    <3>1. r = Stop("null", e) \/ r = Stop("overread", e) \/ \E v : r = Got(d, v)
      BY <1>3, <1>4, <2>1 DEF O
    <3> QED
      BY <1>3, <3>1, SimpleLeaves
  <2>2. CASE d.type # "STRING"
    <3>1. \E v : r = Got(d, v)
      BY <1>4, <2>2 DEF O
    <3> QED
      BY <3>1, SimpleLeaves
  <2> QED
    BY <2>1, <2>2
<1> QED
  BY <1>2, <1>4, SimpleLeaves

LEMMA GetAsStringLeaves ==
  ASSUME NEW d, IsObj(d), NEW cap,
         NEW r \in cplus_data_get_as_string(d, cap)
  PROVE  Leaves(r, d)
<1> DEFINE T == AllButNull
           e == Taken(d, T)
           u == Released(e, T)
           Through(x) ==
             {IF cap < TextLen(x) + 1 THEN Failed(u) ELSE Got(u, Cut(Cut(x, TmpSize), cap))}
           O == CASE d.type = "NULL" -> {Failed(d)}
                  [] d.type = "STRING" /\ d.alloc = Null -> Through(Text("raw", 6))
                  [] d.type = "STRING" /\ d.alloc # Null ->
                       CASE e.alloc = Null -> {Stop("null", e)}
                         [] e.text.form = "open" -> {Stop("overread", e)}
                         [] OTHER -> Through(e.text)
                  [] d.type = "BYTE_ARRAY" ->
                       {CASE cap < d.len + 1 -> Failed(u)
                          [] cap >= d.len + 1 /\ d.len = 0 -> Stop("overwrite", e)
                          [] OTHER -> Got(u, Cut(d.text, d.len))}
                  [] OTHER -> Through(Printed(d.type, d.num))
<1>1. r \in Spin(d, T, O)
  BY DEF cplus_data_get_as_string, WithText
<1> HIDE DEF T, e, u, O
<1>2. \/ r = Stop("hang", d) /\ d.lock
      \/ r \in O /\ u = d
  BY <1>1, SpinReads DEF e, u
<1>3. /\ e = d \/ e = [d EXCEPT !.lock = TRUE]
      /\ e.type = d.type /\ e.alloc = d.alloc /\ e.text = d.text
  BY TakenFacts DEF e
<1>4. ASSUME r \in O, u = d PROVE Leaves(r, d)
  <2>0. \A x : \A q \in Through(x) : Leaves(q, d)
    BY <1>4, SimpleLeaves
  <2> HIDE DEF Through
  <2>1. CASE d.type = "STRING"
    <3>1. r = Stop("null", e) \/ r = Stop("overread", e) \/ \E x : r \in Through(x)
      BY <1>3, <1>4, <2>1 DEF O
    <3> QED
      BY <1>3, <2>0, <3>1, SimpleLeaves
  <2>2. CASE d.type = "BYTE_ARRAY"
    <3>1. r = Stop("overwrite", e) \/ r = Failed(d) \/ \E v : r = Got(d, v)
      BY <1>4, <2>2 DEF O
    <3> QED
      BY <1>3, <3>1, SimpleLeaves
  <2>3. CASE d.type = "NULL"
    <3>1. r = Failed(d)
      BY <1>4, <2>3 DEF O
    <3> QED
      BY <3>1, SimpleLeaves
  <2>4. CASE d.type \notin {"NULL", "STRING", "BYTE_ARRAY"}
    <3>1. \E x : r \in Through(x)
      BY <1>4, <2>4 DEF O
    <3> QED
      BY <2>0, <3>1
  <2> QED
    BY <2>1, <2>2, <2>3, <2>4
<1> QED
  BY <1>2, <1>4, SimpleLeaves

LEMMA GetAsByteArrayLeaves ==
  ASSUME NEW d, IsObj(d), NEW cap, NEW r \in cplus_data_get_as_byte_array(d, cap)
  PROVE  Leaves(r, d)
<1> DEFINE u == Released(Taken(d, AllButNull), AllButNull)
           Bytes(c) == {Got(u, SubSeq(c, 1, Least(Len(c), cap)))}
           O == CASE d.type = "NULL" -> {Failed(d)}
                  [] d.type = "STRING" -> Bytes(Chars(d.text, d.len))
                  [] d.type = "BYTE_ARRAY" -> Bytes(d.cells)
                  [] OTHER -> Bytes(Image(d.type, d.num))
<1>1. r = Failed(d) \/ r \in Spin(d, AllButNull, O)
  BY DEF cplus_data_get_as_byte_array
<1> HIDE DEF u, O
<1>2. \/ r = Failed(d) \/ (r = Stop("hang", d) /\ d.lock)
      \/ r \in O /\ u = d
  BY <1>1, SpinReads DEF u
<1>3. ASSUME r \in O, u = d PROVE r = Failed(d) \/ \E v : r = Got(d, v)
  BY <1>3 DEF O
<1> QED
  BY <1>2, <1>3, SimpleLeaves

\* A new object is sound, and nothing has happened to it.
LEMMA InitializeSound ==
  ASSUME NEW d, d.type \in DataTypes, NEW arg, arg.n \in Nat, Ended(arg.text), NEW key,
         NEW r \in data_initialize_object(d, arg, key)
  PROVE  Sound(r.d, {}) /\ Returns(r)
<1> DEFINE Keyed(q) == IF q.ret = "SUCCESS" /\ key > 0
                       THEN {[q EXCEPT !.ret = k.ret, !.d = k.d] : k \in cplus_data_set_key(q.d, key)}
                       ELSE {q}
<1>1. \/ r = Failed(Absent(d.type))
      \/ \E q \in cplus_data_set_value(Fresh(d.type), arg) :
           \E k \in Keyed(q) : r = IF k.ret = "FAIL" THEN Failed(Absent(d.type)) ELSE k
  BY DEF data_initialize_object
<1>2. CASE r = Failed(Absent(d.type))
  <2>1. r.d = Absent(d.type) /\ r.ret = "FAIL"
    BY <1>2, SimpleOutcomes
  <2> QED
    BY <2>1, FreshSound DEF Returns
<1>3. ASSUME NEW q \in cplus_data_set_value(Fresh(d.type), arg), NEW k \in Keyed(q),
             k.ret # "FAIL", r = k
      PROVE  Sound(r.d, {}) /\ Returns(r)
  <2>1. Sets(q, {})
    <3>1. PICK f : f = Fresh(d.type) /\ Sound(f, {}) /\ Usable(f)
      BY FreshSound
    <3> QED
      BY <3>1, SetValueSets
  <2>2. CASE k = q
    BY <1>3, <2>1, <2>2 DEF Sets, Ends
  <2>3. CASE k # q
    <3>1. PICK p \in cplus_data_set_key(q.d, key) :
            q.ret = "SUCCESS" /\ k = [q EXCEPT !.ret = p.ret, !.d = p.d]
      BY <1>3, <2>3
    <3>2. Sound(q.d, {}) /\ Usable(q.d)
      BY <2>1, <3>1, StopFacts DEF Sets, Ends, Returns
    <3>3. Sound(p.d, {}) /\ Returns(p)
      BY <3>2, SetKeySound
    <3>4. k.d = p.d /\ k.ret = p.ret
      BY <2>1, <3>1 DEF Sets, Ends, IsOut
    <3> QED
      BY <1>3, <3>3, <3>4 DEF Returns
  <2> QED
    BY <2>2, <2>3
<1> QED
  BY <1>1, <1>2, <1>3

----------------------------------------------------------------------------
(* The invariant.                                                          *)

\* Every object is sound for what happened to it; while calls return only an
\* array has its lock taken, and the call that never returns is on one that has.
DataInv ==
  /\ obj = [o \in Objects |-> obj[o]]
  /\ marred = [o \in Objects |-> marred[o]]
  /\ \A o \in Objects : Sound(obj[o], marred[o])
  /\ OnlyByteArraysHang

\* What callers pass has a length.
LEMMA ArgumentFacts ==
  ASSUME NEW t \in DataTypes, NEW arg \in Arguments(t)
  PROVE  arg.n \in Nat /\ Ended(arg.text)
<1>0. Ended(NoText)
  BY NoTextEnded
<1>1. \/ \E x \in Texts : arg = Argument(0, TextLen(x), x, <<>>)
      \/ arg = Argument(0, 3, NoText, <<>>)
      \/ \E c \in Arrays : arg = Argument(0, Len(c), NoText, c)
      \/ \E v : arg = Argument(v, 0, NoText, <<>>)
  BY DEF Arguments
<1>2. CASE \E x \in Texts : arg = Argument(0, TextLen(x), x, <<>>)
  <2>1. PICK x \in Texts : arg = Argument(0, TextLen(x), x, <<>>)
    BY <1>2
  <2>2. arg.n = TextLen(x) /\ arg.text = x
    BY <2>1 DEF Argument
  <2> QED
    BY <2>2, DataAssumption DEF Ended
<1>3. CASE arg = Argument(0, 3, NoText, <<>>)
  BY <1>0, <1>3 DEF Argument
<1>4. CASE \E c \in Arrays : arg = Argument(0, Len(c), NoText, c)
  <2>1. PICK c \in Arrays : arg = Argument(0, Len(c), NoText, c)
    BY <1>4
  <2>2. arg.n = Len(c) /\ arg.text = NoText
    BY <2>1 DEF Argument
  <2> QED
    BY <1>0, <2>2, DataAssumption
<1>5. CASE \E v : arg = Argument(v, 0, NoText, <<>>)
  <2>1. PICK v : arg = Argument(v, 0, NoText, <<>>)
    BY <1>5
  <2> QED
    BY <1>0, <2>1 DEF Argument
<1> QED
  BY <1>1, <1>2, <1>3, <1>4, <1>5

\* A call changes one object and its history.
LEMMA CallKeeps ==
  ASSUME DataInv, stopped = "no", NEW o \in Objects, NEW r, NEW m, NEW w,
         Sound(r.d, m), Returns(r), Return(o, r, w), marred' = [marred EXCEPT ![o] = m]
  PROVE  DataInv'
<1>0. obj' = [obj EXCEPT ![o] = r.d] /\ stopped' = IF r.ret \in Stops THEN r.ret ELSE "no"
  BY DEF Return
<1>1. obj' = [p \in Objects |-> obj'[p]]
  BY <1>0 DEF DataInv
<1>2. marred' = [p \in Objects |-> marred'[p]]
  BY DEF DataInv
<1>3. ASSUME NEW p \in Objects PROVE Sound(obj'[p], marred'[p])
  <2>1. CASE p = o
    BY <1>0, <2>1 DEF DataInv
  <2>2. CASE p # o
    BY <1>0, <2>2 DEF DataInv
  <2> QED
    BY <2>1, <2>2
<1>4. obj'[o] = r.d /\ \A p \in Objects : p # o => obj'[p] = obj[p]
  BY <1>0 DEF DataInv
<1>5. ASSUME stopped' = "no", NEW p \in Objects, obj'[p].lock PROVE obj'[p].type = "BYTE_ARRAY"
  <2>1. r.ret \notin Stops
    BY <1>0, <1>5 DEF Stops
  <2>2. Usable(r.d)
    BY <2>1 DEF Returns
  <2> QED
    BY <1>4, <1>5, <2>2 DEF DataInv, OnlyByteArraysHang, Usable
<1>6. ASSUME stopped' = "hang" PROVE \E p \in Objects : obj'[p].lock /\ obj'[p].type = "BYTE_ARRAY"
  <2>1. r.ret = "hang"
    BY <1>0, <1>6
  <2> QED
    BY <1>4, <2>1 DEF Returns
<1>7. OnlyByteArraysHang'
  BY <1>5, <1>6 DEF OnlyByteArraysHang
<1>8. DataInv' <=> /\ obj' = [p \in Objects |-> obj'[p]]
                   /\ marred' = [p \in Objects |-> marred'[p]]
                   /\ \A p \in Objects : Sound(obj'[p], marred'[p])
                   /\ OnlyByteArraysHang'
  BY DEF DataInv
<1> QED
  BY <1>1, <1>2, <1>3, <1>7, <1>8

LEMMA DataInit == Init => DataInv
<1> SUFFICES ASSUME Init PROVE DataInv
  OBVIOUS
<1>1. PICK types \in TypeChoices : obj = [o \in Objects |-> Absent(types[o])]
  BY DEF Init
<1>2. ASSUME NEW o \in Objects PROVE Sound(obj[o], marred[o]) /\ Usable(obj[o])
  <2>1. types[o] \in DataTypes
    BY DataAssumption
  <2>2. obj[o] = Absent(types[o]) /\ marred[o] = {}
    BY <1>1 DEF Init
  <2> QED
    BY <2>1, <2>2, FreshSound
<1>3. obj = [o \in Objects |-> obj[o]] /\ marred = [o \in Objects |-> marred[o]]
  BY <1>1 DEF Init
<1>4. OnlyByteArraysHang
  BY <1>2 DEF Init, Usable, OnlyByteArraysHang
<1> QED
  BY <1>2, <1>3, <1>4 DEF DataInv

LEMMA DataNext == DataInv /\ [Next]_vars => DataInv'
<1> SUFFICES ASSUME DataInv, [Next]_vars PROVE DataInv'
  OBVIOUS
<1>0. \A o \in Objects : Sound(obj[o], marred[o]) /\ IsObj(obj[o]) /\ obj[o].type \in DataTypes
  BY DEF DataInv, Sound, IsObj
<1>u. ASSUME stopped = "no", NEW o \in Objects PROVE Usable(obj[o])
  BY <1>u DEF DataInv, OnlyByteArraysHang, Usable
<1>1. ASSUME NEW o \in Objects, New(o) PROVE DataInv'
  <2>1. PICK r, w : Return(o, r, w) /\ Sound(r.d, {}) /\ Returns(r)
    <3>1. CASE \E arg \in Arguments(obj[o].type), key \in KeyLengths(o) \cup {0} :
                 \E r \in data_initialize_object(obj[o], arg, key) : Return(o, r, Given(o, arg, r))
      <4>1. PICK arg, key, r :
              /\ arg \in Arguments(obj[o].type) /\ r \in data_initialize_object(obj[o], arg, key)
              /\ Return(o, r, Given(o, arg, r))
        BY <3>1
      <4>2. arg.n \in Nat /\ Ended(arg.text)
        BY <1>0, <4>1, ArgumentFacts
      <4>3. Sound(r.d, {}) /\ Returns(r)
        BY <1>0, <4>1, <4>2, InitializeSound
      <4> QED
        BY <4>1, <4>3
    <3>2. CASE Return(o, Got(Fresh(obj[o].type), 0), Nothing)
      <4>1. PICK r : r = Got(Fresh(obj[o].type), 0)
        OBVIOUS
      <4>2. r.d = Fresh(obj[o].type) /\ r.ret = "SUCCESS"
        BY <4>1, SimpleOutcomes
      <4>3. Sound(r.d, {}) /\ Returns(r)
        BY <1>0, <4>2, FreshSound DEF Returns
      <4> QED
        BY <3>2, <4>1, <4>3
    <3> QED
      BY <1>1, <3>1, <3>2 DEF New
  <2> QED
    BY <1>1, <2>1, CallKeeps DEF New
<1>2. ASSUME NEW o \in Objects, Delete(o) PROVE DataInv'
  <2>1. PICK r : r = Got(Absent(obj[o].type), 0) /\ Return(o, r, Nothing)
    BY <1>2 DEF Delete, cplus_data_delete
  <2>2. r.d = Absent(obj[o].type) /\ r.ret = "SUCCESS"
    BY <2>1, SimpleOutcomes
  <2>3. Sound(r.d, {}) /\ Returns(r)
    BY <1>0, <2>2, FreshSound DEF Returns
  <2> QED
    BY <1>2, <2>1, <2>3, CallKeeps DEF Delete, Ready
<1>3. ASSUME NEW o \in Objects, SetValue(o) PROVE DataInv'
  <2>u. stopped = "no" /\ Usable(obj[o])
    BY <1>3, <1>u DEF SetValue, Ready
  <2>1. PICK arg, r :
          /\ arg \in Arguments(obj[o].type)
          /\ r \in cplus_data_set_value(obj[o], arg)
          /\ Return(o, r, Given(o, arg, r)) /\ Mark(o, Lost(o, r))
    BY <1>3 DEF SetValue
  <2>2. arg.n \in Nat /\ Ended(arg.text)
    BY <1>0, <2>1, ArgumentFacts
  <2>3. Sound(r.d, marred[o] \cup Lost(o, r)) /\ Returns(r)
    BY <1>0, <2>u, <2>1, <2>2, SetValueSets DEF Sets, Ends, Lost, LostOf
  <2> QED
    BY <2>u, <2>1, <2>3, CallKeeps DEF Mark, DataInv
<1>4. ASSUME NEW o \in Objects, SetAsScalar(o) PROVE DataInv'
  <2>u. stopped = "no" /\ Usable(obj[o])
    BY <1>4, <1>u DEF SetAsScalar, Ready
  <2>1. PICK s, v, r, w :
          /\ s \in ScalarTypes
          /\ v \in Samples(s) /\ r \in set_as(s, obj[o], v)
          /\ Return(o, r, w) /\ Mark(o, Lost(o, r))
    BY <1>4 DEF SetAsScalar
  <2>2. Sound(r.d, marred[o] \cup Lost(o, r)) /\ Returns(r)
    BY <1>0, <2>u, <2>1, SetAsScalarEnds DEF Ends, Lost, LostOf
  <2> QED
    BY <2>u, <2>1, <2>2, CallKeeps DEF Mark, DataInv
<1>5. ASSUME NEW o \in Objects, SetAsText(o) PROVE DataInv'
  <2>u. stopped = "no" /\ Usable(obj[o])
    BY <1>5, <1>u DEF SetAsText, Ready
  <2>1. PICK x, n, r, w :
          /\ x \in Texts
          /\ n \in {TextLen(x), TextLen(x) + 1} /\ r \in cplus_data_set_as_string(obj[o], n, x)
          /\ Return(o, r, w) /\ Mark(o, Lost(o, r))
    BY <1>5 DEF SetAsText
  <2>2. n \in Nat /\ Ended(x)
    BY <2>1, DataAssumption DEF Ended
  <2>3. Sound(r.d, marred[o] \cup Lost(o, r)) /\ Returns(r)
    BY <1>0, <2>u, <2>1, <2>2, SetAsStringEnds DEF Ends, Lost, LostOf
  <2> QED
    BY <2>u, <2>1, <2>3, CallKeeps DEF Mark, DataInv
<1>6. ASSUME NEW o \in Objects, SetAsBytes(o) PROVE DataInv'
  <2>u. stopped = "no" /\ Usable(obj[o])
    BY <1>6, <1>u DEF SetAsBytes, Ready
  <2>1. PICK c, r, w :
          /\ c \in Arrays
          /\ r \in cplus_data_set_as_byte_array(obj[o], c)
          /\ Return(o, r, w)
          /\ Mark(o, IF obj[o].type = "STRING" THEN {"raw bytes"} ELSE {})
    BY <1>6 DEF SetAsBytes
  <2>2. Len(c) \in Nat
    BY DataAssumption
  <2>3. Sound(r.d, marred[o] \cup IF obj[o].type = "STRING" THEN {"raw bytes"} ELSE {})
        /\ Returns(r)
    BY <1>0, <2>u, <2>1, <2>2, SetAsBytesSound
  <2> QED
    BY <2>u, <2>1, <2>3, CallKeeps DEF Mark, DataInv
<1>7. ASSUME NEW o \in Objects, NEW src \in Objects, Clone(o, src) PROVE DataInv'
  <2>u. stopped = "no" /\ Usable(obj[o])
    BY <1>7, <1>u DEF Clone, Ready
  <2>1. PICK r, w :
          /\ r \in cplus_data_clone_value(obj[o], obj[src])
          /\ Return(o, r, w)
          /\ Mark(o, marred[src] \cup IF obj[o].alloc = Null THEN {} ELSE Lost(o, r))
    BY <1>7 DEF Clone
  <2>2. Sound(r.d, marred[o] \cup (marred[src] \cup IF obj[o].alloc = Null THEN {} ELSE LostOf(r.d)))
    BY <1>0, <2>1, CloneSound
  <2>3. Lost(o, r) = LostOf(r.d)
    BY DEF Lost, LostOf
  <2>4. Returns(r)
    BY <1>0, <2>u, <2>1, CloneReturns
  <2> QED
    BY <2>u, <2>1, <2>2, <2>3, <2>4, CallKeeps DEF Mark, DataInv
<1>8. ASSUME NEW o \in Objects, Get(o) PROVE DataInv'
  <2>u. stopped = "no" /\ Usable(obj[o])
    BY <1>8, <1>u DEF Get, Ready
  <2>1. PICK r : Leaves(r, obj[o]) /\ Return(o, r, wrote[o])
    <3>1. CASE \E s \in Gettable : \E r \in get_as(s, obj[o]) : Return(o, r, wrote[o])
      <4>1. PICK s \in Gettable : \E r \in get_as(s, obj[o]) : Return(o, r, wrote[o])
        BY <3>1
      <4>2. PICK r \in get_as(s, obj[o]) : Return(o, r, wrote[o])
        BY <4>1
      <4>3. Reads(r, obj[o])
        BY <1>0, <2>u, GetAsReads
      <4> QED
        BY <4>2, <4>3 DEF Reads
    <3>2. CASE \E c \in Caps : \E r \in cplus_data_get_value(obj[o], c) : Return(o, r, wrote[o])
      <4>1. PICK c \in Caps : \E r \in cplus_data_get_value(obj[o], c) : Return(o, r, wrote[o])
        BY <3>2
      <4>2. PICK r \in cplus_data_get_value(obj[o], c) : Return(o, r, wrote[o])
        BY <4>1
      <4>3. Leaves(r, obj[o])
        BY <1>0, <2>u, GetValueLeaves
      <4> QED
        BY <4>2, <4>3
    <3>3. CASE \E c \in Caps : \E r \in cplus_data_get_as_string(obj[o], c) : Return(o, r, wrote[o])
      <4>1. PICK c \in Caps : \E r \in cplus_data_get_as_string(obj[o], c) : Return(o, r, wrote[o])
        BY <3>3
      <4>2. PICK r \in cplus_data_get_as_string(obj[o], c) : Return(o, r, wrote[o])
        BY <4>1
      <4>3. Leaves(r, obj[o])
        BY <1>0, <2>u, GetAsStringLeaves
      <4> QED
        BY <4>2, <4>3
    <3>4. CASE \E c \in Caps : \E r \in cplus_data_get_as_byte_array(obj[o], c) : Return(o, r, wrote[o])
      <4>1. PICK c \in Caps : \E r \in cplus_data_get_as_byte_array(obj[o], c) : Return(o, r, wrote[o])
        BY <3>4
      <4>2. PICK r \in cplus_data_get_as_byte_array(obj[o], c) : Return(o, r, wrote[o])
        BY <4>1
      <4>3. Leaves(r, obj[o])
        BY <1>0, <2>u, GetAsByteArrayLeaves
      <4> QED
        BY <4>2, <4>3
    <3>5. CASE \E r \in cplus_data_get_data_size(obj[o]) : Return(o, r, wrote[o])
      <4>1. PICK r \in cplus_data_get_data_size(obj[o]) : Return(o, r, wrote[o])
        BY <3>5
      <4>2. Leaves(r, obj[o])
        BY <1>0, <2>u, GetDataSizeLeaves
      <4> QED
        BY <4>1, <4>2
    <3> QED
      BY <1>8, <3>1, <3>2, <3>3, <3>4, <3>5 DEF Get
  <2>2. Sound(r.d, marred[o])
    BY <1>0, <2>1, LockSound DEF Leaves
  <2>3. marred' = [marred EXCEPT ![o] = marred[o]]
    BY <1>8 DEF Get, DataInv
  <2> QED
    BY <2>u, <2>1, <2>2, <2>3, CallKeeps DEF Leaves
<1>9. ASSUME NEW o \in Objects, SetKey(o) PROVE DataInv'
  <2>u. stopped = "no" /\ Usable(obj[o])
    BY <1>9, <1>u DEF SetKey, Ready
  <2>1. PICK n, r, w :
          /\ r \in cplus_data_set_key(obj[o], n)
          /\ Return(o, r, w)
          /\ Mark(o, IF r.d.key = Null THEN {"no memory"} ELSE {})
    BY <1>9 DEF SetKey
  <2>2. Sound(r.d, marred[o]) /\ Returns(r)
    BY <1>0, <2>u, <2>1, SetKeySound
  <2>3. Sound(r.d, marred[o] \cup IF r.d.key = Null THEN {"no memory"} ELSE {})
    BY <2>2, SoundGrows
  <2> QED
    BY <2>u, <2>1, <2>2, <2>3, CallKeeps DEF Mark, DataInv
<1>10. ASSUME UNCHANGED vars PROVE DataInv'
  BY <1>10 DEF vars, DataInv, OnlyByteArraysHang
<1>11. Converted \subseteq Objects
  BY DataAssumption
<1> QED
  BY <1>1, <1>2, <1>3, <1>4, <1>5, <1>6, <1>7, <1>8, <1>9, <1>10, <1>11 DEF Next

LEMMA DataSound == Spec => []DataInv
<1>1. DataInv /\ [Next]_vars => DataInv'
  BY DataNext
<1> QED
  BY <1>1, DataInit, PTL DEF Spec

\* BufferSound: whatever is written to, cloned into or read from an object, and
\* whichever allocations fail, the recorded lengths stay within what
\* cplus_malloc gave and a string ends inside its buffer.
THEOREM BuffersStaySound == Spec => []BufferSound
<1>1. DataInv => BufferSound
  <2> SUFFICES ASSUME DataInv, NEW o \in Objects, obj[o].alloc # Null
               PROVE  CASE obj[o].type = "STRING" ->
                             /\ obj[o].len <= obj[o].alloc
                             /\ obj[o].text.form = "open" \/ TextLen(obj[o].text) < obj[o].len
                             /\ obj[o].text.form = "open" => "raw bytes" \in marred[o]
                        [] OTHER -> obj[o].len <= obj[o].size /\ obj[o].size <= obj[o].alloc
                                    /\ Len(obj[o].cells) = obj[o].len
    BY DEF BufferSound
  <2>1. StringSound(obj[o], marred[o]) /\ ArraySound(obj[o])
    BY DEF DataInv, Sound
  <2>2. CASE obj[o].type = "STRING"
    BY <2>1, <2>2 DEF StringSound
  <2>3. CASE obj[o].type # "STRING"
    <3>1. obj[o].type = "BYTE_ARRAY"
      BY <2>1, <2>3, TypeFacts DEF ArraySound
    <3> QED
      BY <2>1, <2>3, <3>1 DEF ArraySound
  <2> QED
    BY <2>2, <2>3
<1> QED
  BY <1>1, DataSound, PTL

\* OnlyByteArraysHang: in every function, on every path, the lock that a call takes
\* of an object of another type is released before it returns, and no call spins
\* on a lock that its own caller left taken but on one of a byte array.
THEOREM LocksAreReleased == Spec => []OnlyByteArraysHang
<1>1. DataInv => OnlyByteArraysHang
  BY DEF DataInv
<1> QED
  BY <1>1, DataSound, PTL

\* ValidReadable: no getter of an object that says it is valid dereferences
\* NULL, unless an allocation failed or its bytes were set raw.
THEOREM ValidIsReadable == Spec => []ValidReadable
<1>1. DataInv => ValidReadable
  <2> SUFFICES ASSUME DataInv, NEW o \in Objects, cplus_data_is_valid(obj[o]), marred[o] = {},
                      NEW s \in Gettable, NEW r \in get_as(s, obj[o]), r.ret = "null"
               PROVE  FALSE
    BY DEF ValidReadable
  <2>0. IsObj(obj[o])
    BY DEF DataInv, Sound
  <2>1. obj[o].type = "STRING" /\ obj[o].alloc = Null
    BY <2>0, GetAsReads DEF Reads
  <2> QED
    BY <2>1 DEF DataInv, Sound, Readable, cplus_data_is_valid
<1> QED
  BY <1>1, DataSound, PTL

----------------------------------------------------------------------------
(* Arithmetic.                                                             *)

\* Division with a positive divisor, and that its result is the only one.
LEMMA DivideFacts ==
  ASSUME NEW n \in Int, NEW m \in Nat \ {0}
  PROVE  /\ n \div m \in Int /\ n % m \in 0..m - 1
         /\ n = (n \div m) * m + (n % m)
         /\ n >= 0 => n \div m \in Nat
OBVIOUS

LEMMA ProductStep ==
  ASSUME NEW a \in Int, NEW m \in Nat \ {0}, a >= 1
  PROVE  a * m >= m
OBVIOUS

LEMMA DivideUnique ==
  ASSUME NEW m \in Nat \ {0}, NEW a \in Int, NEW b \in 0..m - 1, NEW n \in Int, n = a * m + b
  PROVE  n \div m = a /\ n % m = b
<1>1. PICK q \in Int, r \in 0..m - 1 : q = n \div m /\ r = n % m /\ n = q * m + r
  BY DivideFacts
<1>2. (q - a) * m = b - r
  BY <1>1
<1>3. CASE q - a >= 1
  <2>1. (q - a) * m >= m
    BY <1>3, ProductStep
  <2> QED
    BY <1>1, <1>2, <2>1
<1>4. CASE a - q >= 1
  <2>1. (a - q) * m >= m
    BY <1>4, ProductStep
  <2>2. (a - q) * m = r - b
    BY <1>1
  <2> QED
    BY <1>1, <2>1, <2>2
<1>5. CASE q = a
  BY <1>1, <1>5
<1> QED
  BY <1>3, <1>4, <1>5

LEMMA SmallRemainder ==
  ASSUME NEW m \in Nat \ {0}, NEW n \in 0..m - 1
  PROVE  n % m = n /\ n \div m = 0
<1>1. 0 \in Int /\ n \in Int /\ n = 0 * m + n
  OBVIOUS
<1> QED
  BY <1>1, DivideUnique

----------------------------------------------------------------------------
(* Powers of the radix.                                                    *)

IsPower(g, n) == g = [k \in 0..n |-> IF k = 0 THEN 1 ELSE Radix * g[k - 1]]

LEMMA PowersDefined ==
  ASSUME NEW n \in Nat
  PROVE  \E g : IsPower(g, n)
<1> DEFINE T == {k \in Nat : ~\E g : IsPower(g, k)}
<1>1. \E g : IsPower(g, 0)
  <2> DEFINE g == [k \in 0..0 |-> 1]
  <2>1. g = [k \in 0..0 |-> IF k = 0 THEN 1 ELSE Radix * g[k - 1]]
    OBVIOUS
  <2>2. IsPower(g, 0)
    BY <2>1 DEF IsPower
  <2> QED
    BY <2>2
<1>2. ASSUME NEW k \in Nat, k # 0, NEW g, IsPower(g, k - 1) PROVE \E h : IsPower(h, k)
  <2> DEFINE h == [j \in 0..k |-> IF j < k THEN g[j] ELSE Radix * g[k - 1]]
  <2>1. ASSUME NEW j \in 0..k PROVE h[j] = IF j = 0 THEN 1 ELSE Radix * h[j - 1]
    <3>1. CASE j = k
      <4>1. h[j] = Radix * g[k - 1] /\ h[k - 1] = g[k - 1] /\ j # 0
        BY <1>2, <3>1
      <4> QED
        BY <3>1, <4>1
    <3>2. CASE j # k
      <4>1. j < k /\ j \in 0..k - 1 /\ (j # 0 => j - 1 \in 0..k /\ j - 1 < k)
        BY <1>2, <3>2
      <4>2. h[j] = g[j] /\ (j # 0 => h[j - 1] = g[j - 1])
        BY <4>1
      <4>3. g[j] = IF j = 0 THEN 1 ELSE Radix * g[j - 1]
        BY <1>2, <4>1 DEF IsPower
      <4> QED
        BY <4>2, <4>3
    <3> QED
      BY <3>1, <3>2
  <2>2. h = [j \in 0..k |-> h[j]]
    OBVIOUS
  <2> HIDE DEF h
  <2>3. IsPower(h, k)
    BY <2>1, <2>2 DEF IsPower
  <2> QED
    BY <2>3
<1>3. T = {}
  <2> SUFFICES ASSUME T # {} PROVE FALSE
    OBVIOUS
  <2>1. PICK k \in T : \A y \in T : k <= y
    <3>1. T \subseteq Nat
      OBVIOUS
    <3> HIDE DEF T
    <3> QED
      BY <3>1, LeastExists
  <2>2. k \in Nat /\ k # 0 /\ ~\E g : IsPower(g, k)
    BY <1>1, <2>1
  <2>3. k - 1 \in Nat /\ k - 1 \notin T
    BY <2>1, <2>2
  <2>4. PICK g : IsPower(g, k - 1)
    BY <2>3
  <2> QED
    BY <1>2, <2>2, <2>4
<1> QED
  BY <1>3

LEMMA PowersAgree ==
  ASSUME NEW n \in Nat, NEW m \in Nat, NEW g, NEW h, IsPower(g, n), IsPower(h, m), NEW k \in Nat,
         k <= n, k <= m
  PROVE  g[k] = h[k]
<1> DEFINE T == {j \in 0..k : g[j] # h[j]}
<1>1. T = {}
  <2> SUFFICES ASSUME T # {} PROVE FALSE
    OBVIOUS
  <2>1. PICK j \in T : \A y \in T : j <= y
    <3>1. T \subseteq Nat
      OBVIOUS
    <3> HIDE DEF T
    <3> QED
      BY <3>1, LeastExists
  <2>2. j \in 0..k /\ j \in 0..n /\ j \in 0..m /\ g[j] # h[j]
    BY <2>1
  <2>3. g[j] = (IF j = 0 THEN 1 ELSE Radix * g[j - 1]) /\ h[j] = IF j = 0 THEN 1 ELSE Radix * h[j - 1]
    BY <2>2 DEF IsPower
  <2>4. j # 0 /\ j - 1 \in 0..k /\ j - 1 \notin T
    BY <2>1, <2>2, <2>3
  <2>5. g[j - 1] = h[j - 1]
    BY <2>4
  <2> QED
    BY <2>2, <2>3, <2>5
<1>2. k \in 0..k
  OBVIOUS
<1> QED
  BY <1>1, <1>2

LEMMA PowerDefined == \A k \in Nat : Power[k] = IF k = 0 THEN 1 ELSE Radix * Power[k - 1]
<1> DEFINE P(w) == [k \in Nat |-> IF k = 0 THEN 1 ELSE Radix * w[k - 1]]
           up(n) == CHOOSE g : IsPower(g, n)
           f == [n \in Nat |-> up(n)[n]]
<1>1. ASSUME NEW n \in Nat PROVE IsPower(up(n), n)
  BY PowersDefined
<1> HIDE DEF up
<1>2. ASSUME NEW n \in Nat PROVE f[n] = IF n = 0 THEN 1 ELSE Radix * f[n - 1]
  <2>1. n \in 0..n /\ f[n] = up(n)[n]
    OBVIOUS
  <2>2. up(n)[n] = IF n = 0 THEN 1 ELSE Radix * up(n)[n - 1]
    BY <1>1, <2>1 DEF IsPower
  <2>3. ASSUME n # 0 PROVE f[n - 1] = up(n)[n - 1]
    <3>1. PICK j \in Nat : j = n - 1 /\ j <= n /\ j <= j
      BY <2>3
    <3>2. up(j)[j] = up(n)[j]
      BY <1>1, <3>1, PowersAgree
    <3> QED
      BY <3>1, <3>2
  <2> QED
    BY <2>1, <2>2, <2>3
<1>3. f = [n \in Nat |-> f[n]]
  OBVIOUS
<1> HIDE DEF f
<1>4. f = P(f)
  BY <1>2, <1>3
<1>5. Power = P(Power)
  <2>1. Power = CHOOSE w : w = P(w)
    BY DEF Power
  <2>2. (CHOOSE w : w = P(w)) = P(CHOOSE w : w = P(w))
    BY <1>4
  <2> QED
    BY <2>1, <2>2
<1> QED
  BY <1>5

LEMMA PowerPositive == \A k \in Nat : Power[k] \in Nat \ {0}
<1> DEFINE T == {k \in Nat : Power[k] \notin Nat \ {0}}
<1>1. T = {}
  <2> SUFFICES ASSUME T # {} PROVE FALSE
    OBVIOUS
  <2>1. PICK k \in T : \A y \in T : k <= y
    <3>1. T \subseteq Nat
      OBVIOUS
    <3> HIDE DEF T
    <3> QED
      BY <3>1, LeastExists
  <2>2. k \in Nat /\ Power[k] = IF k = 0 THEN 1 ELSE Radix * Power[k - 1]
    BY <2>1, PowerDefined
  <2>3. k # 0 /\ k - 1 \in Nat /\ k - 1 \notin T
    BY <2>1, <2>2
  <2>4. PICK p \in Nat \ {0} : p = Power[k - 1]
    BY <2>3
  <2>5. Radix * p \in Nat \ {0}
    BY RadixAssumption
  <2> QED
    BY <2>1, <2>2, <2>3, <2>4, <2>5
<1> QED
  BY <1>1

----------------------------------------------------------------------------
(* The sizes and limits of the types.                                      *)

\* The powers that are the number of values of some type.
LEMMA PowerValues ==
  /\ Power[0] = 1 /\ Power[1] = Radix
  /\ Power[2] = Radix * Radix
  /\ Power[3] = Radix * Power[2] /\ Power[4] = Radix * Power[3]
  /\ Power[4] = Power[2] * Power[2]
  /\ Power[8] = Radix * Power[7] /\ Power[8] = Power[4] * Power[4]
  /\ Power[7] = Power[4] * Power[3]
<1>1. PICK R \in Nat : R = Radix
  BY RadixAssumption
<1>2. Power[0] = 1 /\ Power[1] = R * Power[0] /\ Power[2] = R * Power[1] /\ Power[3] = R * Power[2]
      /\ Power[4] = R * Power[3] /\ Power[5] = R * Power[4] /\ Power[6] = R * Power[5]
      /\ Power[7] = R * Power[6] /\ Power[8] = R * Power[7]
  BY <1>1, PowerDefined
<1>3. PICK a \in Nat, b \in Nat, c \in Nat : a = Power[2] /\ b = Power[3] /\ c = Power[4]
  BY PowerPositive
<1>4. Power[1] = R /\ a = R * R /\ b = R * a /\ c = R * b
  BY <1>2, <1>3
<1>5. c = a * a
  BY ONLY <1>4, R \in Nat, a \in Nat, b \in Nat, c \in Nat
<1>6. PICK d \in Nat, e \in Nat, f \in Nat, g \in Nat :
        d = Power[5] /\ e = Power[6] /\ f = Power[7] /\ g = Power[8]
  BY PowerPositive
<1>7. d = R * c /\ e = R * d /\ f = R * e /\ g = R * f
  BY <1>2, <1>3, <1>6
<1>8. f = (R * (R * R)) * c
  BY ONLY <1>7, R \in Nat, d \in Nat, e \in Nat, f \in Nat, c \in Nat
<1>9. b = R * (R * R)
  BY ONLY <1>4, R \in Nat, b \in Nat, a \in Nat
<1>10. f = b * c
  BY <1>8, <1>9
<1>11. g = (R * b) * c
  BY ONLY <1>7, <1>10, R \in Nat, b \in Nat, c \in Nat, f \in Nat, g \in Nat
<1>12. g = c * c /\ f = c * b
  BY ONLY <1>4, <1>10, <1>11, b \in Nat, c \in Nat, f \in Nat
<1> QED
  BY <1>1, <1>2, <1>3, <1>4, <1>5, <1>6, <1>7, <1>12

\* The numbers of values grow with the size, and each divides the next.
LEMMA PowerOrder ==
  \E a, b, c \in Nat :
    /\ Power[2] = a * Power[1] /\ Power[4] = b * Power[2] /\ Power[8] = c * Power[4]
    /\ a >= 4 /\ b >= 4 /\ c >= 4
<1>1. PICK R \in Nat : R = Radix /\ R >= 4
  BY RadixAssumption
<1>2. PICK a \in Nat, c \in Nat : a = Power[2] /\ c = Power[4]
  BY PowerPositive
<1>3. a = R * R /\ c = a * a
  BY <1>1, <1>2, PowerValues
<1>4. R * R >= R * 4
  BY ONLY <1>1, R \in Nat
<1>5. a >= 16
  BY ONLY <1>1, <1>3, <1>4, R \in Nat, a \in Nat
<1>6. a * a >= a * 16
  BY ONLY <1>5, a \in Nat
<1>7. c >= 16
  BY ONLY <1>3, <1>5, <1>6, a \in Nat, c \in Nat
<1>8. Power[2] = R * Power[1] /\ Power[4] = a * Power[2] /\ Power[8] = c * Power[4]
  BY <1>1, <1>2, PowerValues
<1> QED
  BY <1>1, <1>5, <1>7, <1>8

\* A type's numbers: half of them negative or none.
LEMMA LimitFacts ==
  ASSUME NEW t \in ScalarTypes
  PROVE  /\ Modulus(t) \in Nat \ {0} /\ Lo(t) \in Int /\ Hi(t) \in Int
         /\ Hi(t) = Lo(t) + Modulus(t) - 1
<1>1. Size[t] \in Nat
  BY SizeFacts
<1>2. PICK m \in Nat \ {0} : m = Modulus(t)
  BY <1>1, PowerPositive DEF Modulus
<1>3. Lo(t) = IF t \in SignedTypes \cup {"POINTER"} THEN -(m \div 2) ELSE 0
  BY <1>2 DEF Lo
<1>4. m \div 2 \in Int
  BY <1>2
<1>5. Lo(t) \in Int
  BY <1>3, <1>4
<1> QED
  BY <1>2, <1>5 DEF Hi

\* A conversion to the type keeps a number the type has, and one that differs from
\* it by a multiple of the number of its values becomes it.
LEMMA WrapExact ==
  ASSUME NEW t \in ScalarTypes, NEW n \in Lo(t)..Hi(t), NEW k \in Int, NEW z \in Int,
         z = n + k * Modulus(t)
  PROVE  Wrap(t, z) = n
<1>1. PICK m \in Nat \ {0}, l \in Int : m = Modulus(t) /\ l = Lo(t) /\ Hi(t) = l + m - 1
  BY LimitFacts
<1>2. n - l \in 0..m - 1 /\ n \in Int
  BY <1>1
<1>3. z - l = k * m + (n - l) /\ z - l \in Int
  BY <1>1, <1>2
<1>4. (z - l) % m = n - l
  BY <1>2, <1>3, DivideUnique
<1>5. Wrap(t, z) = ((z - l) % m) + l
  BY <1>1 DEF Wrap
<1> QED
  BY <1>1, <1>2, <1>4, <1>5

LEMMA WrapSame ==
  ASSUME NEW t \in ScalarTypes, NEW n \in Lo(t)..Hi(t)
  PROVE  Wrap(t, n) = n
<1>1. PICK m \in Nat \ {0} : m = Modulus(t)
  BY LimitFacts
<1>2. n \in Int /\ 0 \in Int
  BY LimitFacts
<1>3. n = n + 0 * m
  BY <1>1, <1>2
<1> QED
  BY <1>1, <1>2, <1>3, WrapExact

\* Every integer type has the numbers of the shorter ones of its kind.
LEMMA RangesNested ==
  /\ \A s \in {"INT8", "INT16", "INT32"} : \A n \in Lo(s)..Hi(s) : n \in Lo("INT32")..Hi("INT32")
  /\ \A n \in Lo("INT32")..Hi("INT32") : n \in Lo("INT64")..Hi("INT64")
  /\ \A s \in {"UINT8", "UINT16", "UINT32"} :
       \A n \in Lo(s)..Hi(s) : n \in Lo("UINT32")..Hi("UINT32")
  /\ \A n \in Lo("UINT32")..Hi("UINT32") : n \in Lo("UINT64")..Hi("UINT64")
  /\ \A s \in UnsignedTypes : Lo(s) = 0
<1>1. PICK a \in Nat, b \in Nat, c \in Nat, d \in Nat :
        a = Power[1] /\ b = Power[2] /\ c = Power[4] /\ d = Power[8]
  BY PowerPositive
<1>2. a <= b /\ b <= c /\ c <= d
  <2>1. PICK x \in Nat, y \in Nat, z \in Nat :
          b = x * a /\ c = y * b /\ d = z * c /\ x >= 4 /\ y >= 4 /\ z >= 4
    BY <1>1, PowerOrder
  <2>2. x * a >= 1 * a
    BY ONLY <2>1, x \in Nat, a \in Nat
  <2>3. y * b >= 1 * b
    BY ONLY <2>1, y \in Nat, b \in Nat
  <2>4. z * c >= 1 * c
    BY ONLY <2>1, z \in Nat, c \in Nat
  <2> QED
    BY ONLY <2>1, <2>2, <2>3, <2>4, a \in Nat, b \in Nat, c \in Nat, d \in Nat
<1>3. /\ Modulus("INT8") = a /\ Modulus("UINT8") = a /\ Modulus("INT16") = b /\ Modulus("UINT16") = b
      /\ Modulus("INT32") = c /\ Modulus("UINT32") = c /\ Modulus("INT64") = d /\ Modulus("UINT64") = d
  BY <1>1 DEF Modulus, Size, ScalarTypes, IntTypes, SignedTypes, UnsignedTypes, FloatTypes
<1>4. /\ \A s \in SignedTypes : Lo(s) = -(Modulus(s) \div 2)
      /\ \A s \in UnsignedTypes : Lo(s) = 0
      /\ \A s \in IntTypes : Hi(s) = Lo(s) + Modulus(s) - 1
  BY DEF Lo, Hi, SignedTypes, UnsignedTypes, IntTypes
<1>5. PICK p \in Nat, q \in Nat, r \in Nat, w \in Nat :
        /\ p = a \div 2 /\ q = b \div 2 /\ r = c \div 2 /\ w = d \div 2
        /\ p <= q /\ q <= r /\ r <= w
        /\ a - p <= b - q /\ b - q <= c - r /\ c - r <= d - w
  BY <1>2
<1>6. /\ Lo("INT8") = -p /\ Lo("INT16") = -q /\ Lo("INT32") = -r /\ Lo("INT64") = -w
      /\ Lo("UINT8") = 0 /\ Lo("UINT16") = 0 /\ Lo("UINT32") = 0 /\ Lo("UINT64") = 0
  BY <1>3, <1>4, <1>5 DEF SignedTypes, UnsignedTypes
<1>7. /\ Hi("INT8") = -p + a - 1 /\ Hi("INT16") = -q + b - 1
      /\ Hi("INT32") = -r + c - 1 /\ Hi("INT64") = -w + d - 1
      /\ Hi("UINT8") = a - 1 /\ Hi("UINT16") = b - 1
      /\ Hi("UINT32") = c - 1 /\ Hi("UINT64") = d - 1
  BY <1>3, <1>4, <1>6 DEF IntTypes, SignedTypes, UnsignedTypes
<1> QED
  BY <1>2, <1>4, <1>5, <1>6, <1>7

----------------------------------------------------------------------------
(* Conversions between scalars.                                            *)

LEMMA KindFacts ==
  /\ \A t \in ScalarTypes : t = "BOOL" \/ t \in FloatTypes \/ t \in IntTypes \cup {"POINTER"}
  /\ "BOOL" \notin FloatTypes /\ "POINTER" \notin FloatTypes /\ "BOOL" \notin IntTypes
  /\ "BOOL" # "POINTER" /\ "POINTER" \notin IntTypes
  /\ \A t \in IntTypes : t \notin FloatTypes
  /\ IntTypes \subseteq ScalarTypes /\ FloatTypes \subseteq ScalarTypes
  /\ "BOOL" \in ScalarTypes /\ "POINTER" \in ScalarTypes
BY DEF ScalarTypes, IntTypes, SignedTypes, UnsignedTypes, FloatTypes

\* Four quarters are a whole.
LEMMA TruncateExact ==
  ASSUME NEW h \in Int, h % 4 = 0
  PROVE  Truncate(h) = h \div 4 /\ 4 * (h \div 4) = h /\ h \div 4 \in Int
<1>1. PICK k \in Int : h = 4 * k /\ k = h \div 4
  OBVIOUS
<1>2. CASE h < 0
  <2>1. Truncate(h) = (-1) * ((-h) \div 4)
    BY <1>2 DEF Truncate, Sign, AbsVal
  <2>2. (-h) \div 4 = -k
    <3>1. -h \in Int /\ -k \in Int /\ -h = (-k) * 4 + 0 /\ 0 \in 0..4 - 1 /\ 4 \in Nat \ {0}
      BY <1>1
    <3> QED
      BY ONLY <3>1, DivideUnique
  <2>3. Truncate(h) = (-1) * (-k)
    BY <2>1, <2>2
  <2> QED
    BY ONLY <1>1, <2>3, h \in Int, k \in Int
<1>3. CASE ~(h < 0)
  <2>1. Truncate(h) = 1 * (h \div 4)
    BY <1>3 DEF Truncate, Sign, AbsVal
  <2> QED
    BY <1>1, <2>1
<1> QED
  BY <1>2, <1>3

\* What Holds says of the integer types.
LEMMA HoldsInt ==
  ASSUME NEW t \in IntTypes \cup {"POINTER"}, NEW h \in Int, Holds(t, h)
  PROVE  h % 4 = 0 /\ h \div 4 \in Lo(t)..Hi(t) /\ 4 * (h \div 4) = h /\ Truncate(h) = h \div 4
<1>1. h % 4 = 0 /\ h \div 4 \in Lo(t)..Hi(t)
  BY KindFacts DEF Holds
<1> QED
  BY <1>1, TruncateExact

\* A cast to a type that has the number keeps it.
LEMMA CastExact ==
  ASSUME NEW t \in ScalarTypes, NEW s \in ScalarTypes, NEW v \in Int, Holds(t, Quarters(s, v)),
         NEW n \in Cast(t, s, v)
  PROVE  n \in Int /\ Quarters(t, n) = Quarters(s, v)
<1>1. PICK h \in Int : h = Quarters(s, v) /\ h = IF s \in FloatTypes THEN v ELSE 4 * v
  BY DEF Quarters
<1>2. CASE t = "BOOL"
  <2>1. n = IF v # 0 THEN 1 ELSE 0
    BY <1>2, KindFacts DEF Cast
  <2>2. h \in {0, 4}
    BY <1>1, <1>2, KindFacts DEF Holds
  <2>3. Quarters(t, n) = 4 * n
    BY <1>2, KindFacts DEF Quarters
  <2> QED
    BY <1>1, <2>1, <2>2, <2>3
<1>3. CASE t \in FloatTypes
  <2>1. n = Nearest(t, h)
    BY <1>1, <1>3, KindFacts DEF Cast
  <2>2. Nearest(t, h) = h
    BY <1>1, <1>3, KindFacts DEF Holds
  <2> QED
    BY <1>1, <1>3, <2>1, <2>2 DEF Quarters
<1>4. CASE t \in IntTypes \cup {"POINTER"}
  <2>1. /\ h \div 4 \in Lo(t)..Hi(t) /\ 4 * (h \div 4) = h /\ Truncate(h) = h \div 4
        /\ h \div 4 \in Int
    <3>1. h \in Int /\ Holds(t, h)
      BY <1>1
    <3>2. h \div 4 \in Int
      BY <3>1
    <3> QED
      BY <1>4, <3>1, <3>2, HoldsInt
  <2>2. Quarters(t, n) = 4 * n
    BY <1>4, KindFacts DEF Quarters
  <2>3. CASE s \in FloatTypes
    <3>1. n \in CastFloat(t, v) /\ v = h
      BY <1>1, <1>4, <2>3, KindFacts DEF Cast
    <3>2. n = h \div 4
      BY <2>1, <3>1 DEF CastFloat
    <3> QED
      BY <1>1, <2>1, <2>2, <3>2
  <2>4. CASE s \notin FloatTypes
    <3>1. n = Wrap(t, v)
      BY <1>4, <2>4, KindFacts DEF Cast
    <3>2. v = h \div 4
      BY <1>1, <2>4
    <3>3. n = v
      BY <2>1, <3>1, <3>2, WrapSame
    <3> QED
      BY <1>1, <2>1, <2>2, <3>2, <3>3
  <2> QED
    BY <2>3, <2>4
<1> QED
  BY <1>2, <1>3, <1>4, KindFacts

----------------------------------------------------------------------------
(* Conversions from texts.                                                 *)

\* The text x shows h quarters.
Shows(x, h) == (x.form = "dec" /\ x.n \in Int /\ h = 4 * x.n) \/ (x.form = "fix" /\ x.n \in Int /\ h = x.n)

\* The sscanf format of each integer type.
Format(s) == CASE s \in {"INT8", "INT16", "INT32"} -> "%d"
               [] s = "INT64" -> "%ld"
               [] s \in {"UINT8", "UINT16", "UINT32"} -> "%u"
               [] s = "UINT64" -> "%lu"

LEMMA SaturateSame ==
  ASSUME NEW t \in ScalarTypes, NEW n \in Lo(t)..Hi(t)
  PROVE  Saturate(t, n) = n
<1>1. Lo(t) \in Int /\ Hi(t) \in Int
  BY LimitFacts
<1> QED
  BY <1>1 DEF Saturate

\* A number that the type has is scanned exactly.
LEMMA ScanExact ==
  ASSUME NEW s \in IntTypes, NEW h \in Int, Holds(s, h), NEW x, Shows(x, h)
  PROVE  ScanInt(Format(s), x) = {h \div 4}
<1>1. PICK n \in Int : n = h \div 4
  OBVIOUS
<1>2. n \in Lo(s)..Hi(s) /\ 4 * n = h /\ Truncate(h) = n
  BY <1>1, HoldsInt
<1>3. Whole(x) = {n}
  <2>1. CASE x.form = "dec"
    <3>1. x.n = n
      BY <1>2, <2>1 DEF Shows
    <3> QED
      BY <2>1, <3>1 DEF Whole
  <2>2. CASE x.form = "fix"
    <3>1. x.n = h
      BY <2>2 DEF Shows
    <3> QED
      BY <1>2, <2>2, <3>1 DEF Whole
  <2> QED
    BY <2>1, <2>2 DEF Shows
<1>4. \A fmt : ScanInt(fmt, x) =
        {CASE fmt = "%d" -> Wrap("INT32", Saturate("INT64", n))
           [] fmt = "%ld" -> Saturate("INT64", n)
           [] fmt = "%u" -> Wrap("UINT32", IF n < 0 THEN n ELSE Saturate("UINT64", n))
           [] fmt = "%lu" -> IF n < 0 THEN Wrap("UINT64", n) ELSE Saturate("UINT64", n)}
  BY <1>3 DEF ScanInt
<1>5. /\ "INT32" \in ScalarTypes /\ "INT64" \in ScalarTypes
      /\ "UINT32" \in ScalarTypes /\ "UINT64" \in ScalarTypes
  BY DEF ScalarTypes, IntTypes, SignedTypes, UnsignedTypes
<1>6. CASE s \in {"INT8", "INT16", "INT32"}
  <2>1. n \in Lo("INT32")..Hi("INT32") /\ n \in Lo("INT64")..Hi("INT64")
    BY <1>2, <1>6, RangesNested
  <2>2. Wrap("INT32", Saturate("INT64", n)) = n
    BY <1>5, <2>1, SaturateSame, WrapSame
  <2>3. Format(s) = "%d"
    BY <1>6 DEF Format
  <2> QED
    BY <1>1, <1>4, <2>2, <2>3
<1>7. CASE s = "INT64"
  <2>1. Saturate("INT64", n) = n /\ Format(s) = "%ld"
    BY <1>2, <1>5, <1>7, SaturateSame DEF Format
  <2> QED
    BY <1>1, <1>4, <2>1
<1>8. CASE s \in {"UINT8", "UINT16", "UINT32"}
  <2>1. n \in Lo("UINT32")..Hi("UINT32") /\ n \in Lo("UINT64")..Hi("UINT64") /\ Lo("UINT32") = 0
    BY <1>2, <1>8, RangesNested DEF UnsignedTypes
  <2>2. ~(n < 0)
    BY <1>5, <2>1, LimitFacts
  <2>3. Wrap("UINT32", Saturate("UINT64", n)) = n
    BY <1>5, <2>1, SaturateSame, WrapSame
  <2>4. Format(s) = "%u"
    BY <1>8 DEF Format
  <2> QED
    BY <1>1, <1>4, <2>2, <2>3, <2>4
<1>9. CASE s = "UINT64"
  <2>1. Lo("UINT64") = 0
    BY RangesNested DEF UnsignedTypes
  <2>2. ~(n < 0)
    BY <1>2, <1>5, <1>9, <2>1, LimitFacts
  <2>3. Saturate("UINT64", n) = n /\ Format(s) = "%lu"
    BY <1>2, <1>5, <1>9, SaturateSame DEF Format
  <2> QED
    BY <1>1, <1>4, <2>2, <2>3
<1> QED
  BY <1>6, <1>7, <1>8, <1>9 DEF IntTypes, SignedTypes, UnsignedTypes

LEMMA ScanFloatExact ==
  ASSUME NEW s \in FloatTypes, NEW h \in Int, Holds(s, h), NEW x, Shows(x, h)
  PROVE  ScanFloat(s, x) = {h}
<1>1. Nearest(s, h) = h
  BY KindFacts DEF Holds
<1> QED
  BY <1>1 DEF Shows, ScanFloat

\* What each type parses a text with.
LEMMA ParsedBranch ==
  ASSUME NEW t, NEW x
  PROVE  /\ t = "INT64" => Parsed(t, x) = ScanInt("%ld", x)
         /\ t = "UINT64" => Parsed(t, x) = ScanInt("%lu", x)
         /\ t \in {"INT8", "INT16", "INT32"} => Parsed(t, x) = {Wrap(t, n) : n \in ScanInt("%d", x)}
         /\ t \in {"UINT8", "UINT16", "UINT32"} => Parsed(t, x) = {Wrap(t, n) : n \in ScanInt("%u", x)}
<1> DEFINE D == {Wrap(t, n) : n \in ScanInt("%d", x)}
           U == {Wrap(t, n) : n \in ScanInt("%u", x)}
           B == IF x = True THEN {1} ELSE IF x = False THEN {0} ELSE {}
<1>1. Parsed(t, x) =
        CASE t = "BOOL" -> B
          [] t = "INT64" -> ScanInt("%ld", x)
          [] t = "UINT64" -> ScanInt("%lu", x)
          [] t \in {"INT8", "INT16", "INT32"} -> D
          [] t \in {"UINT8", "UINT16", "UINT32"} -> U
          [] t \in FloatTypes -> ScanFloat(t, x)
          [] t = "POINTER" -> ScanPointer(x)
  BY Zenon DEF Parsed
<1> HIDE DEF D, U, B
<1>2. /\ t = "INT64" => Parsed(t, x) = ScanInt("%ld", x)
      /\ t = "UINT64" => Parsed(t, x) = ScanInt("%lu", x)
      /\ t \in {"INT8", "INT16", "INT32"} => Parsed(t, x) = D
      /\ t \in {"UINT8", "UINT16", "UINT32"} => Parsed(t, x) = U
  BY <1>1 DEF FloatTypes
<1> QED
  BY <1>2 DEF D, U

\* cplus_data_set_as_string parses a number that the type has exactly.
LEMMA ParsedExact ==
  ASSUME NEW t \in ScalarTypes, t \notin {"BOOL", "POINTER"}, NEW h \in Int, Holds(t, h),
         NEW x, Shows(x, h), NEW n \in Parsed(t, x)
  PROVE  n \in Int /\ Quarters(t, n) = h
<1>1. CASE t \in FloatTypes
  <2>1. n \in ScanFloat(t, x)
    BY <1>1 DEF Parsed, FloatTypes
  <2>2. n = h
    BY <1>1, <2>1, ScanFloatExact
  <2> QED
    BY <1>1, <2>2 DEF Quarters
<1>2. CASE t \in IntTypes
  <2>1. PICK k \in Int : k = h \div 4 /\ k \in Lo(t)..Hi(t) /\ 4 * k = h
    BY <1>2, HoldsInt
  <2>2. ScanInt(Format(t), x) = {k}
    BY <1>2, <2>1, ScanExact
  <2>3. Wrap(t, k) = k
    BY <2>1, WrapSame
  <2>4. n = k
    <3>1. CASE t = "INT64"
      <4>1. Format(t) = "%ld" /\ Parsed(t, x) = ScanInt("%ld", x)
        BY <3>1, ParsedBranch DEF Format
      <4> QED
        BY <2>2, <4>1
    <3>2. CASE t = "UINT64"
      <4>1. Format(t) = "%lu" /\ Parsed(t, x) = ScanInt("%lu", x)
        BY <3>2, ParsedBranch DEF Format
      <4> QED
        BY <2>2, <4>1
    <3>3. CASE t \in {"INT8", "INT16", "INT32"}
      <4>1. Format(t) = "%d"
        BY <3>3 DEF Format
      <4>2. n \in {Wrap(t, i) : i \in ScanInt("%d", x)}
        BY <3>3, ParsedBranch
      <4> QED
        BY <2>2, <2>3, <4>1, <4>2
    <3>4. CASE t \in {"UINT8", "UINT16", "UINT32"}
      <4>1. Format(t) = "%u"
        BY <3>4 DEF Format
      <4>2. n \in {Wrap(t, i) : i \in ScanInt("%u", x)}
        BY <3>4, ParsedBranch
      <4> QED
        BY <2>2, <2>3, <4>1, <4>2
    <3> QED
      BY <1>2, <3>1, <3>2, <3>3, <3>4 DEF IntTypes, SignedTypes, UnsignedTypes
  <2>5. Quarters(t, n) = 4 * n
    BY <1>2, KindFacts DEF Quarters
  <2> QED
    BY <2>1, <2>4, <2>5
<1> QED
  BY <1>1, <1>2, KindFacts

----------------------------------------------------------------------------
(* Conversions from memory images.                                         *)

\* One more digit of a number.
LEMMA DigitStep ==
  ASSUME NEW n \in Nat, NEW R \in Nat \ {0}, NEW p \in Nat \ {0}
  PROVE  n % (R * p) = (n % p) + ((n \div p) % R) * p
<1>1. PICK a \in Int, b \in 0..p - 1 : a = n \div p /\ b = n % p /\ n = a * p + b
  BY DivideFacts
<1>2. PICK q \in Int, r \in 0..R - 1 : q = a \div R /\ r = a % R /\ a = q * R + r
  BY DivideFacts
<1>3. n = q * (R * p) + (r * p + b)
  <2>1. n = (q * R + r) * p + b
    BY ONLY <1>1, <1>2
  <2>2. (q * R + r) * p = (q * R) * p + r * p
    BY ONLY q \in Int, r \in 0..R - 1, R \in Nat \ {0}, p \in Nat \ {0}
  <2>3. (q * R) * p = q * (R * p)
    BY ONLY q \in Int, R \in Nat \ {0}, p \in Nat \ {0}
  <2>4. PICK u \in Int, w \in Int : u = (q * R) * p /\ w = r * p
    BY ONLY q \in Int, r \in 0..R - 1, R \in Nat \ {0}, p \in Nat \ {0}
  <2> QED
    BY <2>1, <2>2, <2>3, <2>4
<1>4. r * p + b \in 0..(R * p) - 1
  <2>1. PICK w \in Int, u \in Int : w = r * p /\ u = (R - 1 - r) * p
    OBVIOUS
  <2>2. w >= 0 /\ u >= 0
    BY ONLY <2>1, r \in 0..R - 1, R \in Nat \ {0}, p \in Nat \ {0}, w \in Int, u \in Int
  <2>3. R * p = u + w + p
    BY ONLY <2>1, r \in 0..R - 1, R \in Nat \ {0}, p \in Nat \ {0}, w \in Int, u \in Int
  <2>4. PICK z \in Int : z = R * p
    OBVIOUS
  <2> QED
    BY <2>1, <2>2, <2>3, <2>4
<1>5. PICK z \in Nat \ {0}, y \in Int : z = R * p /\ y = r * p + b /\ y \in 0..z - 1
  <2>1. R * p \in Nat \ {0}
    BY ONLY R \in Nat \ {0}, p \in Nat \ {0}
  <2> QED
    BY <1>4, <2>1
<1>6. n % z = y
  <2>1. n = q * z + y /\ n \in Int /\ y \in 0..z - 1
    BY <1>3, <1>5
  <2> QED
    BY ONLY <2>1, q \in Int, z \in Nat \ {0}, DivideUnique
<1>7. r * p + b = b + r * p
  BY ONLY r \in 0..R - 1, b \in 0..p - 1, p \in Nat \ {0}
<1> QED
  BY <1>1, <1>2, <1>5, <1>6, <1>7

\* f sums up the digits c from the lowest.
IsSum(f, c) ==
  f = [k \in 0..Len(c) |-> IF k = 0 THEN 0 ELSE f[k - 1] + c[k] * Power[k - 1]]

\* The digits of n are those of the number they make.
LEMMA NumberOfDigits ==
  ASSUME NEW n \in Nat, NEW c, Len(c) \in Nat, \A i \in 1..Len(c) : c[i] = (n \div Power[i - 1]) % Radix
  PROVE  Number(c) = n % Power[Len(c)]
<1> DEFINE l == Len(c)
           f == [k \in 0..l |-> n % Power[k]]
           g == CHOOSE w : IsSum(w, c)
<1>1. IsSum(f, c)
  <2>1. ASSUME NEW k \in 0..l PROVE f[k] = IF k = 0 THEN 0 ELSE f[k - 1] + c[k] * Power[k - 1]
    <3>1. CASE k = 0
      <4>1. Power[0] = 1 /\ n % 1 = 0
        BY PowerValues
      <4> QED
        BY <3>1, <4>1
    <3>2. CASE k # 0
      <4>1. k - 1 \in Nat /\ k \in Nat /\ k \in 1..l /\ k - 1 \in 0..l
        BY <3>2
      <4>2. PICK p \in Nat \ {0}, R \in Nat \ {0} : p = Power[k - 1] /\ R = Radix
        BY <4>1, PowerPositive, RadixAssumption
      <4>3. Power[k] = R * p
        BY <3>2, <4>1, <4>2, PowerDefined
      <4>4. c[k] = (n \div p) % R
        BY <4>1, <4>2
      <4>5. n % (R * p) = (n % p) + ((n \div p) % R) * p
        BY DigitStep
      <4>6. f[k] = n % Power[k] /\ f[k - 1] = n % Power[k - 1]
        BY <4>1
      <4> HIDE DEF f
      <4>7. f[k] = f[k - 1] + c[k] * Power[k - 1]
        BY ONLY <4>2, <4>3, <4>4, <4>5, <4>6
      <4> QED
        BY <3>2, <4>7
    <3> QED
      BY <3>1, <3>2
  <2>2. f = [k \in 0..l |-> f[k]]
    OBVIOUS
  <2> HIDE DEF f
  <2> QED
    BY <2>1, <2>2 DEF IsSum
<1>2. Number(c) = g[l]
  BY DEF Number, IsSum
<1>3. IsSum(g, c)
  BY <1>1
<1> DEFINE T == {k \in 0..l : g[k] # f[k]}
<1>4. T = {}
  <2> SUFFICES ASSUME T # {} PROVE FALSE
    OBVIOUS
  <2>1. PICK k \in T : \A y \in T : k <= y
    <3>1. T \subseteq Nat
      OBVIOUS
    <3> HIDE DEF T
    <3> QED
      BY <3>1, LeastExists
  <2>2. k \in 0..l /\ g[k] # f[k]
    BY <2>1
  <2> HIDE DEF f, g
  <2>3. /\ g[k] = IF k = 0 THEN 0 ELSE g[k - 1] + c[k] * Power[k - 1]
        /\ f[k] = IF k = 0 THEN 0 ELSE f[k - 1] + c[k] * Power[k - 1]
    BY <1>1, <1>3, <2>2 DEF IsSum
  <2>4. k # 0 /\ k - 1 \in 0..l /\ k - 1 \notin T
    BY <2>1, <2>2, <2>3
  <2>5. g[k - 1] = f[k - 1]
    BY <2>4
  <2> QED
    BY <2>2, <2>3, <2>5
<1>5. l \in 0..l
  OBVIOUS
<1>6. g[l] = f[l]
  BY <1>4, <1>5
<1>7. f[l] = n % Power[l]
  BY <1>5
<1> QED
  BY <1>2, <1>6, <1>7

LEMMA DigitsFacts ==
  ASSUME NEW n, NEW k \in Nat
  PROVE  Len(Digits(n, k)) = k /\ \A i \in 1..k : Digits(n, k)[i] = (n \div Power[i - 1]) % Radix
<1>1. PICK f : f = Digits(n, k)
  OBVIOUS
<1>2. f = [i \in 1..k |-> (n \div Power[i - 1]) % Radix]
  BY <1>1 DEF Digits
<1>3. DOMAIN f = 1..k /\ f \in [1..k -> {f[i] : i \in 1..k}]
  BY <1>2
<1>4. f \in Seq({f[i] : i \in 1..k})
  BY <1>3
<1>5. Len(f) = k
  BY <1>3, <1>4, LenProperties
<1> QED
  BY <1>1, <1>2, <1>5

LEMMA PowerMultiple ==
  ASSUME NEW i \in Nat, NEW j \in Nat, i <= j
  PROVE  \E k \in Nat : Power[j] = k * Power[i]
<1> DEFINE P(m) == \E k \in Nat : Power[m] = k * Power[i]
           T == {m \in Nat : i <= m /\ ~P(m)}
<1>1. P(i)
  <2>1. PICK p \in Nat : p = Power[i]
    BY PowerPositive
  <2>2. p = 1 * p
    OBVIOUS
  <2> QED
    BY <2>1, <2>2
<1>2. ASSUME NEW m \in Nat, P(m) PROVE P(m + 1)
  <2>1. PICK k \in Nat : Power[m] = k * Power[i]
    BY <1>2
  <2>2. PICK p \in Nat, R \in Nat : p = Power[i] /\ R = Radix
    BY PowerPositive, RadixAssumption
  <2>3. m + 1 \in Nat /\ m + 1 # 0 /\ (m + 1) - 1 = m
    OBVIOUS
  <2>4. Power[m + 1] = R * (k * p)
    BY <2>1, <2>2, <2>3, PowerDefined
  <2>5. R * (k * p) = (R * k) * p /\ R * k \in Nat
    BY ONLY R \in Nat, k \in Nat, p \in Nat
  <2> QED
    BY <2>2, <2>4, <2>5
<1> HIDE DEF P
<1>3. T = {}
  <2> SUFFICES ASSUME T # {} PROVE FALSE
    OBVIOUS
  <2>1. PICK m \in T : \A y \in T : m <= y
    <3>1. T \subseteq Nat
      OBVIOUS
    <3> HIDE DEF T
    <3> QED
      BY <3>1, LeastExists
  <2>2. m \in Nat /\ i <= m /\ ~P(m) /\ m # i
    BY <1>1, <2>1
  <2>3. PICK l \in Nat : m = l + 1 /\ i <= l
    BY <2>2
  <2>4. P(l)
    BY <2>1, <2>3
  <2> QED
    BY <1>2, <2>2, <2>3, <2>4
<1>4. P(j)
  BY <1>3
<1> QED
  BY <1>4 DEF P

LEMMA SizePositive == ASSUME NEW s \in ScalarTypes PROVE Size[s] \in Nat \ {0}
  BY DEF Size

LEMMA ImageInt ==
  ASSUME NEW s \in ScalarTypes, s \notin FloatTypes, NEW v \in Int
  PROVE  /\ Len(Image(s, v)) = Size[s]
         /\ \A i \in 1..Size[s] : Image(s, v)[i] = ((v % Modulus(s)) \div Power[i - 1]) % Radix
<1>1. Image(s, v) = Digits(v % Modulus(s), Size[s])
  BY DEF Image
<1> QED
  BY <1>1, SizeFacts, DigitsFacts

\* The low bytes of an integer's image are the image of the shorter integer.
LEMMA ImageReadInt ==
  ASSUME NEW s \in IntTypes, NEW u \in ScalarTypes, u \notin FloatTypes, Size[s] <= Size[u],
         NEW v \in Lo(s)..Hi(s), NEW c, Len(c) = Size[s],
         \A i \in 1..Size[s] : c[i] = Image(u, v)[i]
  PROVE  FromImage(s, c) = v
<1>0. s \in ScalarTypes /\ s \notin FloatTypes
  BY KindFacts
<1>1. v \in Int
  BY <1>0, LimitFacts
<1>2. PICK a \in Nat \ {0}, b \in Nat \ {0}, k \in Nat : a = Modulus(s) /\ b = Modulus(u) /\ b = k * a
  <2>1. PICK i \in Nat, j \in Nat : i = Size[s] /\ j = Size[u] /\ i <= j
    BY <1>0, SizeFacts
  <2>2. PICK k \in Nat : Power[j] = k * Power[i]
    BY <2>1, PowerMultiple
  <2> QED
    BY <2>1, <2>2, PowerPositive DEF Modulus
<1>3. PICK q \in Int, n \in 0..b - 1 : q = v \div b /\ n = v % b /\ v = q * b + n
  BY <1>1, DivideFacts
<1>30. n \in Nat
  OBVIOUS
<1>4. \A i \in 1..Len(c) : c[i] = (n \div Power[i - 1]) % Radix
  <2> SUFFICES ASSUME NEW i \in 1..Len(c) PROVE c[i] = (n \div Power[i - 1]) % Radix
    OBVIOUS
  <2>1. i \in 1..Size[s] /\ i \in 1..Size[u]
    BY <1>0, SizeFacts
  <2>2. Image(u, v)[i] = ((v % Modulus(u)) \div Power[i - 1]) % Radix
    BY <1>1, <2>1, ImageInt
  <2> QED
    BY <1>2, <1>3, <2>1, <2>2
<1>5. Number(c) = n % a
  <2>1. Len(c) \in Nat
    BY <1>0, SizeFacts
  <2>2. Number(c) = n % Power[Len(c)]
    BY <1>30, <1>4, <2>1, NumberOfDigits
  <2> QED
    BY <1>2, <2>2 DEF Modulus
<1>6. PICK p \in Int, r \in 0..a - 1 : p = n \div a /\ r = n % a /\ n = p * a + r
  <2>1. n \in Int
    OBVIOUS
  <2> QED
    BY ONLY <2>1, a \in Nat \ {0}, DivideFacts
<1>7. r = v + (-(q * k) - p) * a
  <2>1. v = q * (k * a) + (p * a + r)
    BY ONLY <1>2, <1>3, <1>6
  <2>2. q * (k * a) = (q * k) * a
    BY ONLY q \in Int, k \in Nat, a \in Nat \ {0}
  <2>3. PICK e \in Int : e = q * k
    OBVIOUS
  <2>4. v = e * a + (p * a + r)
    BY <2>1, <2>2, <2>3
  <2>5. (-e - p) * a = -(e * a) - p * a
    BY ONLY e \in Int, p \in Int, a \in Nat \ {0}
  <2>6. PICK x \in Int, y \in Int : x = e * a /\ y = p * a
    OBVIOUS
  <2>7. r = v + (-e - p) * a
    BY <1>1, <2>4, <2>5, <2>6
  <2> QED
    BY <2>3, <2>7
<1>8. PICK z \in Int : r = v + z * a
  <2>1. PICK e \in Int : e = q * k
    OBVIOUS
  <2>2. -(q * k) - p = -e - p /\ -e - p \in Int
    BY <2>1
  <2> QED
    BY <1>7, <2>2
<1>9. Wrap(s, r) = v
  <2>1. r \in Int /\ r = v + z * Modulus(s)
    BY <1>2, <1>8
  <2> QED
    BY <1>0, <2>1, WrapExact
<1> QED
  BY <1>0, <1>5, <1>6, <1>9 DEF FromImage

\* The first byte of the image of a truth value.
LEMMA ImageReadBool ==
  ASSUME NEW u \in ScalarTypes, u \notin FloatTypes, NEW v \in {0, 1}
  PROVE  Image(u, v)[1] = v
<1>1. PICK R \in Nat, m \in Nat \ {0}, k \in Nat : R = Radix /\ R >= 4 /\ m = Modulus(u) /\ m = k * R
  <2>1. 1 \in Nat /\ Size[u] \in Nat /\ 1 <= Size[u]
    BY SizePositive
  <2>2. PICK k \in Nat : Power[Size[u]] = k * Power[1]
    BY <2>1, PowerMultiple
  <2> QED
    BY <2>1, <2>2, PowerPositive, PowerValues, RadixAssumption DEF Modulus
<1>2. m >= R
  <2>1. k # 0
    BY <1>1
  <2>2. R \in Nat \ {0} /\ k >= 1 /\ k \in Int
    BY <1>1, <2>1
  <2> QED
    BY <1>1, <2>2, ProductStep
<1>3. v % m = v /\ v \in Int
  <2>1. v \in 0..m - 1
    BY <1>1, <1>2
  <2> QED
    BY <2>1, SmallRemainder
<1>4. 1 \in 1..Size[u]
  BY SizePositive
<1>5. Image(u, v)[1] = ((v % m) \div Power[1 - 1]) % R
  <2>1. \A i \in 1..Size[u] : Image(u, v)[i] = ((v % Modulus(u)) \div Power[i - 1]) % Radix
    BY <1>3, ImageInt
  <2>2. Image(u, v)[1] = ((v % Modulus(u)) \div Power[1 - 1]) % Radix
    BY <1>4, <2>1
  <2> QED
    BY <1>1, <2>2
<1>6. Power[1 - 1] = 1
  BY PowerValues
<1>7. v \div 1 = v
  OBVIOUS
<1>8. v % R = v
  <2>1. v \in 0..R - 1 /\ R \in Nat \ {0}
    BY <1>1
  <2> QED
    BY <2>1, SmallRemainder
<1> QED
  BY <1>3, <1>5, <1>6, <1>7, <1>8

----------------------------------------------------------------------------
(* Floats.                                                                 *)

LEMMA AbsFacts ==
  ASSUME NEW h \in Int
  PROVE  AbsVal(h) \in Nat /\ Sign(h) \in {-1, 1} /\ h = Sign(h) * AbsVal(h)
  BY DEF AbsVal, Sign

LEMMA UnitFacts == ASSUME NEW e \in Nat PROVE Unit(e) \in Nat \ {0}
<1>1. 3 * e \in Nat
  OBVIOUS
<1> QED
  BY <1>1, PowerPositive DEF Unit

\* The exponent is the least that makes the mantissa small enough, if there is one.
LEMMA ExponentFacts ==
  ASSUME NEW t, NEW h
  PROVE  /\ Exponent(t, h) \in 0..Radix - 1
         /\ \A e \in 0..Radix - 1 : AbsVal(h) \div Unit(e) < MantissaLimit(t) =>
              /\ Exponent(t, h) <= e
              /\ AbsVal(h) \div Unit(Exponent(t, h)) < MantissaLimit(t)
<1> DEFINE fits == {e \in 0..Radix - 1 : AbsVal(h) \div Unit(e) < MantissaLimit(t)}
<1>1. Exponent(t, h) = IF fits = {} THEN Radix - 1 ELSE Min(fits)
  BY DEF Exponent
<1>2. fits \subseteq 0..Radix - 1 /\ fits \subseteq Nat
  BY RadixAssumption
<1>3. CASE fits = {}
  BY <1>1, <1>3, RadixAssumption
<1>4. CASE fits # {}
  <2>1. Min(fits) \in fits /\ \A e \in fits : Min(fits) <= e
    <3> HIDE DEF fits
    <3> QED
      BY <1>2, <1>4, LeastExists DEF Min
  <2>2. Exponent(t, h) \in fits /\ \A e \in fits : Exponent(t, h) <= e
    BY <1>1, <1>4, <2>1
  <2> QED
    BY <2>2
<1> QED
  BY <1>3, <1>4

LEMMA NearestFacts ==
  ASSUME NEW t, NEW h \in Int
  PROVE  \E u \in Nat \ {0}, q \in Nat :
           /\ u = Unit(Exponent(t, h)) /\ q = (AbsVal(h) + (u \div 2)) \div u
           /\ q * u <= AbsVal(h) + u
           /\ Nearest(t, h) = Sign(h) * (q * u) /\ Nearest(t, h) \in Int
<1>1. PICK u \in Nat \ {0} : u = Unit(Exponent(t, h))
  <2>1. Exponent(t, h) \in Nat
    BY ExponentFacts, RadixAssumption
  <2> QED
    BY <2>1, UnitFacts
<1>2. PICK a \in Nat, g \in {-1, 1} : a = AbsVal(h) /\ g = Sign(h)
  BY AbsFacts
<1>3. PICK z \in Nat : z = a + (u \div 2) /\ z <= a + u
  OBVIOUS
<1>4. PICK q \in Nat : q = z \div u /\ q * u <= z
  <2>1. z \in Int
    OBVIOUS
  <2>2. PICK q \in Int, r \in 0..u - 1 : q = z \div u /\ r = z % u /\ z = q * u + r
    BY ONLY <2>1, u \in Nat \ {0}, DivideFacts
  <2>20. z >= 0
    OBVIOUS
  <2>21. z \div u \in Nat
    BY ONLY <2>1, <2>20, u \in Nat \ {0}, DivideFacts
  <2>3. PICK p \in Int : p = q * u
    OBVIOUS
  <2> QED
    BY <2>2, <2>21, <2>3
<1>5. PICK p \in Nat : p = q * u
  OBVIOUS
<1>6. Nearest(t, h) = g * q * u
  BY <1>1, <1>2, <1>3, <1>4 DEF Nearest
<1>7. g * q * u = g * (q * u)
  BY ONLY g \in {-1, 1}, q \in Nat, u \in Nat \ {0}
<1>8. g * p \in Int /\ p <= a + u
  BY <1>3, <1>4, <1>5
<1> QED
  BY <1>1, <1>2, <1>3, <1>4, <1>5, <1>6, <1>7, <1>8

\* The numbers behind the type float.
LEMMA FloatLimits ==
  \E p2, p3, p4, l \in Nat :
    /\ p2 = Power[2] /\ p3 = Power[3] /\ p4 = Power[4] /\ l = MantissaLimit("FLOAT")
    /\ Modulus("FLOAT") = p4 /\ Modulus("FLOAT") \div Radix = p3 /\ p3 = 2 * l
    /\ Unit(0) = 1 /\ Unit(1) = p3
    /\ p2 >= 16 /\ p3 >= 64 /\ p4 >= 16 * p2 /\ p4 >= 4 * p3 /\ p4 % 2 = 0 /\ l * p3 >= 8 * p4
<1>1. PICK R \in Nat, p2 \in Nat, p3 \in Nat, p4 \in Nat :
        R = Radix /\ p2 = Power[2] /\ p3 = Power[3] /\ p4 = Power[4]
  BY PowerPositive, RadixAssumption
<1>2. R >= 4 /\ R % 2 = 0 /\ p2 = R * R /\ p3 = R * p2 /\ p4 = R * p3 /\ p4 = p2 * p2
  BY <1>1, PowerValues, RadixAssumption
<1>3. Modulus("FLOAT") = p4
  BY <1>1 DEF Modulus, Size, ScalarTypes, IntTypes, SignedTypes, UnsignedTypes, FloatTypes
<1>4. p4 \div R = p3
  <2>1. p4 = p3 * R + 0 /\ R \in Nat \ {0} /\ 0 \in 0..R - 1 /\ p3 \in Int /\ p4 \in Int
    BY <1>2
  <2> QED
    BY ONLY <2>1, DivideUnique
<1>5. PICK w \in Nat : R = 2 * w
  BY <1>2
<1>6. PICK l \in Nat : l = w * p2
  OBVIOUS
<1>7. p3 = 2 * l
  BY ONLY <1>2, <1>5, <1>6, w \in Nat, p2 \in Nat, l \in Nat, R \in Nat, p3 \in Nat
<1>8. p3 \div 2 = l
  BY ONLY <1>7, p3 \in Nat, l \in Nat
<1>9. MantissaLimit("FLOAT") = l
  BY <1>1, <1>3, <1>4, <1>8 DEF MantissaLimit
<1>10. Unit(0) = 1 /\ Unit(1) = p3
  <2>1. 3 * 0 = 0 /\ 3 * 1 = 3
    OBVIOUS
  <2> QED
    BY <1>1, <2>1, PowerValues DEF Unit
<1>11. p2 >= 16
  <2>1. R * R >= 4 * 4
    BY ONLY <1>2, R \in Nat
  <2> QED
    BY <1>2, <2>1
<1>12. p4 >= 16 * p2
  BY ONLY <1>2, <1>11, p2 \in Nat, p4 \in Nat
<1>13. p4 % 2 = 0
  <2>1. p4 = 2 * (w * p3)
    BY ONLY <1>2, <1>5, w \in Nat, p3 \in Nat, p4 \in Nat
  <2>2. PICK x \in Nat : x = w * p3
    OBVIOUS
  <2> QED
    BY ONLY <2>1, <2>2, x \in Nat, p4 \in Nat
<1>14. p3 >= 64 /\ p4 >= 4 * p3
  <2>1. R * p2 >= 4 * p2
    BY ONLY <1>2, R \in Nat, p2 \in Nat
  <2>2. R * p3 >= 4 * p3
    BY ONLY <1>2, R \in Nat, p3 \in Nat
  <2> QED
    BY <1>2, <1>11, <2>1, <2>2
<1>15. l * p3 >= 8 * p4
  <2>1. w >= 2
    BY <1>2, <1>5
  <2>2. l >= 2 * p2
    BY ONLY <1>6, <2>1, w \in Nat, p2 \in Nat, l \in Nat
  <2>3. l * p3 >= (2 * p2) * p3
    BY ONLY <2>2, l \in Nat, p2 \in Nat, p3 \in Nat
  <2>4. (2 * p2) * p3 = 2 * (R * p4)
    <3>1. p2 * p3 = R * p4
      <4>1. p2 * p3 = (R * R) * p3
        BY <1>2
      <4>2. (R * R) * p3 = R * (R * p3)
        BY ONLY R \in Nat, p3 \in Nat
      <4> QED
        BY <1>2, <4>1, <4>2
    <3>2. (2 * p2) * p3 = 2 * (p2 * p3)
      BY ONLY p2 \in Nat, p3 \in Nat
    <3> QED
      BY <3>1, <3>2
  <2>5. R * p4 >= 4 * p4
    BY ONLY <1>2, R \in Nat, p4 \in Nat
  <2>6. PICK x \in Nat, y \in Nat : x = l * p3 /\ y = R * p4
    OBVIOUS
  <2> QED
    BY <2>3, <2>4, <2>5, <2>6
<1> QED
  BY <1>1, <1>2, <1>3, <1>4, <1>7, <1>9, <1>10, <1>11, <1>12, <1>13, <1>14, <1>15

\* Numbers up to a little more than four int32 are in the range of a float.
InFloat(h) == AbsVal(h) < 2 * Power[4] + Power[3]

LEMMA FloatFits ==
  ASSUME NEW h \in Int, InFloat(h)
  PROVE  /\ Exponent("FLOAT", h) \in {0, 1}
         /\ AbsVal(h) \div Unit(Exponent("FLOAT", h)) < MantissaLimit("FLOAT")
<1>1. PICK p3 \in Nat, p4 \in Nat, l \in Nat :
        /\ p3 = Power[3] /\ p4 = Power[4] /\ l = MantissaLimit("FLOAT") /\ Unit(1) = p3
        /\ p3 >= 64 /\ p4 >= 4 * p3 /\ l * p3 >= 8 * p4
  BY FloatLimits
<1>2. PICK a \in Nat, z \in Nat : a = AbsVal(h) /\ z = l * p3
  BY AbsFacts
<1>3. a < z
  BY <1>1, <1>2 DEF InFloat
<1>4. 1 \in 0..Radix - 1
  BY RadixAssumption
<1>5. a \div p3 < l
  <2>1. PICK q \in Int, r \in 0..p3 - 1 : q = a \div p3 /\ a = q * p3 + r
    <3>1. a \in Int /\ p3 \in Nat \ {0}
      BY <1>1
    <3> QED
      BY ONLY <3>1, DivideFacts
  <2> SUFFICES ASSUME q >= l PROVE FALSE
    BY <2>1
  <2>2. q * p3 >= l * p3
    BY ONLY q >= l, q \in Int, l \in Nat, p3 \in Nat
  <2>3. PICK x \in Int : x = q * p3
    OBVIOUS
  <2> QED
    BY <1>2, <1>3, <2>1, <2>2, <2>3
<1>6. AbsVal(h) \div Unit(1) < MantissaLimit("FLOAT")
  BY <1>1, <1>2, <1>5
<1> QED
  BY <1>4, <1>6, ExponentFacts

LEMMA NearestNear ==
  ASSUME NEW h \in Int, AbsVal(h) < 2 * Power[4]
  PROVE  InFloat(Nearest("FLOAT", h))
<1>1. PICK p3 \in Nat, p4 \in Nat : p3 = Power[3] /\ p4 = Power[4] /\ Unit(0) = 1 /\ Unit(1) = p3 /\ p3 >= 64
  BY FloatLimits
<1>2. PICK a \in Nat, g \in {-1, 1} : a = AbsVal(h) /\ g = Sign(h) /\ a < 2 * p4
  BY <1>1, AbsFacts
<1>3. Exponent("FLOAT", h) \in {0, 1}
  <2>1. InFloat(h)
    BY <1>1, <1>2 DEF InFloat
  <2> QED
    BY <2>1, FloatFits
<1>4. PICK u \in Nat \ {0}, q \in Nat :
        /\ u = Unit(Exponent("FLOAT", h)) /\ q * u <= AbsVal(h) + u
        /\ Nearest("FLOAT", h) = Sign(h) * (q * u) /\ Nearest("FLOAT", h) \in Int
  BY NearestFacts
<1>5. u <= p3
  BY <1>1, <1>3, <1>4
<1>6. PICK p \in Nat, n \in Int : p = q * u /\ n = Nearest("FLOAT", h)
  BY <1>4
<1>7. n = g * p /\ p <= a + u
  BY <1>2, <1>4, <1>6
<1>8. AbsVal(n) = p
  BY <1>7 DEF AbsVal
<1> QED
  BY <1>1, <1>2, <1>5, <1>6, <1>7, <1>8 DEF InFloat

LEMMA SampleInt == ASSUME NEW s \in ScalarTypes, NEW v \in Samples(s) PROVE v \in Int
<1>1. Hi("INT16") \in Int /\ Hi("INT32") \in Int
  BY LimitFacts DEF ScalarTypes, IntTypes, SignedTypes
<1>2. 4 * Hi("INT16") \in Int /\ 4 * Hi("INT32") + 2 \in Int
  BY <1>1
<1>3. Nearest(s, 4 * Hi("INT16")) \in Int /\ Nearest(s, 4 * Hi("INT32") + 2) \in Int
  BY <1>2, NearestFacts
<1>4. Lo(s) \in Int /\ Hi(s) \in Int
  BY LimitFacts
<1>5. CASE s = "BOOL"
  BY <1>5, KindFacts DEF Samples
<1>6. CASE s \in FloatTypes
  BY <1>3, <1>6, KindFacts DEF Samples
<1>7. CASE s # "BOOL" /\ s \notin FloatTypes
  BY <1>4, <1>7 DEF Samples
<1> QED
  BY <1>5, <1>6, <1>7

LEMMA FloatSamples ==
  ASSUME NEW v \in Samples("FLOAT")
  PROVE  v \in Int /\ InFloat(v)
<1>1. PICK p2 \in Nat, p3 \in Nat, p4 \in Nat :
        p2 = Power[2] /\ p3 = Power[3] /\ p4 = Power[4] /\ p2 >= 16 /\ p3 >= 64 /\ p4 >= 16 * p2 /\ p4 % 2 = 0
  BY FloatLimits
<1>2. PICK a \in Int, b \in Int : a = Hi("INT16") /\ b = Hi("INT32")
                                  /\ a = p2 - (p2 \div 2) - 1 /\ b = p4 - (p4 \div 2) - 1
  <2>1. Modulus("INT16") = p2 /\ Modulus("INT32") = p4
    BY <1>1 DEF Modulus, Size, ScalarTypes, IntTypes, SignedTypes, UnsignedTypes, FloatTypes
  <2>2. Hi("INT16") = -(p2 \div 2) + p2 - 1 /\ Hi("INT32") = -(p4 \div 2) + p4 - 1
    BY <2>1 DEF Hi, Lo, SignedTypes
  <2> QED
    BY <2>2
<1>3. PICK x \in Nat, y \in Nat : x = 4 * a /\ y = 4 * b + 2 /\ x < 2 * p4 /\ y < 2 * p4
  BY <1>1, <1>2
<1>4. AbsVal(x) < 2 * Power[4] /\ AbsVal(y) < 2 * Power[4]
  BY <1>1, <1>3 DEF AbsVal
<1>5. InFloat(Nearest("FLOAT", x)) /\ InFloat(Nearest("FLOAT", y))
  <2>1. x \in Int /\ y \in Int
    OBVIOUS
  <2> QED
    BY <1>4, <2>1, NearestNear
<1>6. v \in {-6, 0, 1, 3, 4, Nearest("FLOAT", x), Nearest("FLOAT", y)}
  BY <1>2, <1>3, KindFacts DEF Samples, FloatTypes
<1>7. v \in Int
  BY SampleInt DEF ScalarTypes, FloatTypes
<1>8. v \in {-6, 0, 1, 3, 4} => InFloat(v)
  BY <1>1 DEF AbsVal, InFloat
<1> QED
  BY <1>5, <1>6, <1>7, <1>8

LEMMA AppendLast ==
  ASSUME NEW S, NEW f \in Seq(S), NEW e \in S
  PROVE  Append(f, e)[Len(f) + 1] = e /\ \A i \in 1..Len(f) : Append(f, e)[i] = f[i]
  BY AppendProperties

\* The bytes of a float that rounding leaves alone give it back.
LEMMA ImageReadFloat ==
  ASSUME NEW v \in Int, InFloat(v), Nearest("FLOAT", v) = v, NEW c, Len(c) = 4,
         \A i \in 1..4 : c[i] = Image("FLOAT", v)[i]
  PROVE  FromImage("FLOAT", c) = v
<1>0. "FLOAT" \in FloatTypes /\ Size["FLOAT"] = 4
  BY DEF FloatTypes, Size, ScalarTypes, IntTypes, SignedTypes, UnsignedTypes
<1>1. PICK p3 \in Nat, l \in Nat :
        /\ p3 = Power[3] /\ l = MantissaLimit("FLOAT") /\ Modulus("FLOAT") \div Radix = p3
        /\ p3 = 2 * l
  BY FloatLimits
<1>2. PICK e \in 0..Radix - 1 : e = Exponent("FLOAT", v)
  BY ExponentFacts
<1>3. PICK u \in Nat \ {0}, q \in Nat :
        u = Unit(e) /\ v = Sign(v) * (q * u)
  <2>1. PICK u \in Nat \ {0}, q \in Nat :
          u = Unit(Exponent("FLOAT", v)) /\ Nearest("FLOAT", v) = Sign(v) * (q * u)
    BY ONLY NearestFacts, v \in Int
  <2> QED
    BY <1>2, <2>1
<1>4. PICK a \in Nat, g \in {-1, 1} : a = AbsVal(v) /\ g = Sign(v) /\ v = g * a
  BY AbsFacts
<1>5. a \div u < l
  BY <1>1, <1>2, <1>3, <1>4, FloatFits
<1>6. a = q * u
  <2>1. PICK p \in Nat : p = q * u
    OBVIOUS
  <2>2. g * a = g * p
    BY <1>3, <1>4, <2>1
  <2> QED
    BY <2>1, <2>2
<1>7. a \div u = q
  <2>1. a = q * u + 0 /\ 0 \in 0..u - 1 /\ q \in Int /\ a \in Int
    BY <1>6
  <2> QED
    BY ONLY <2>1, u \in Nat \ {0}, DivideUnique
<1>8. q < l
  BY <1>5, <1>7
<1>9. PICK m \in Int : m = g * q /\ m * u = v /\ -l < m /\ m < l
  <2>1. PICK m \in Int : m = g * q
    OBVIOUS
  <2>2. m * u = g * (q * u)
    BY ONLY <2>1, m \in Int, g \in {-1, 1}, q \in Nat, u \in Nat \ {0}
  <2>3. -l < m /\ m < l
    BY <1>8, <2>1
  <2> QED
    BY <1>3, <1>4, <2>1, <2>2, <2>3
<1>10. PICK n \in 0..p3 - 1 : n = m % p3 /\ n = IF m < 0 THEN m + p3 ELSE m
  <2>1. p3 \in Nat \ {0}
    BY <1>1, <1>9
  <2>2. CASE m < 0
    <3>1. m = (-1) * p3 + (m + p3) /\ m + p3 \in 0..p3 - 1 /\ -1 \in Int
      BY <1>1, <1>9, <2>2
    <3>2. m % p3 = m + p3
      BY ONLY <2>1, <3>1, m \in Int, DivideUnique
    <3> QED
      BY <2>2, <3>1, <3>2
  <2>3. CASE ~(m < 0)
    <3>1. m \in 0..p3 - 1
      BY <1>1, <1>9, <2>3
    <3>2. m % p3 = m
      BY ONLY <2>1, <3>1, SmallRemainder
    <3> QED
      BY <2>3, <3>1, <3>2
  <2> QED
    BY <2>2, <2>3
<1>11. Image("FLOAT", v) = Append(Digits(n, 3), e)
  <2>1. Image("FLOAT", v) = Append(Digits((Sign(v) * (AbsVal(v) \div Unit(Exponent("FLOAT", v))))
                                           % (Modulus("FLOAT") \div Radix), Size["FLOAT"] - 1),
                                   Exponent("FLOAT", v))
    BY <1>0 DEF Image
  <2>2. Size["FLOAT"] - 1 = 3
    BY <1>0
  <2>3. Sign(v) * (AbsVal(v) \div Unit(Exponent("FLOAT", v))) = m
    BY <1>2, <1>3, <1>4, <1>7, <1>9
  <2> QED
    BY <1>1, <1>2, <1>10, <2>1, <2>2, <2>3
<1>12. /\ \A i \in 1..3 : c[i] = (n \div Power[i - 1]) % Radix
       /\ c[4] = e
  <2>1. PICK f : f = Digits(n, 3)
    OBVIOUS
  <2>2. f = [i \in 1..3 |-> (n \div Power[i - 1]) % Radix]
    BY <2>1 DEF Digits
  <2>3. PICK S : S = {f[i] : i \in 1..3} \cup {e}
    OBVIOUS
  <2>4. f \in [1..3 -> S] /\ e \in S
    BY <2>2, <2>3
  <2>5. f \in Seq(S) /\ Len(f) = 3
    <3>1. f \in Seq(S)
      <4>1. 3 \in Nat
        OBVIOUS
      <4> QED
        BY <2>4, <4>1, SeqDef
    <3> QED
      BY <2>2, <3>1, LenProperties
  <2>6. Append(f, e)[4] = e /\ \A i \in 1..3 : Append(f, e)[i] = f[i]
    <3>1. 3 + 1 = 4
      OBVIOUS
    <3>2. Append(f, e)[Len(f) + 1] = e /\ \A i \in 1..Len(f) : Append(f, e)[i] = f[i]
      <4>1. PICK x : x = e
        OBVIOUS
      <4>2. f \in Seq(S) /\ x \in S
        BY <2>4, <2>5, <4>1
      <4>3. Append(f, x)[Len(f) + 1] = x /\ \A i \in 1..Len(f) : Append(f, x)[i] = f[i]
        BY ONLY <4>2, AppendLast
      <4> QED
        BY <4>1, <4>3
    <3> QED
      BY <2>5, <3>1, <3>2
  <2>7. c[4] = Append(f, e)[4] /\ \A i \in 1..3 : c[i] = Append(f, e)[i]
    <3>1. 4 \in 1..4 /\ \A i \in 1..3 : i \in 1..4
      OBVIOUS
    <3>2. \A i \in 1..4 : c[i] = Append(f, e)[i]
      BY <1>11, <2>1
    <3> QED
      BY <3>1, <3>2
  <2> QED
    BY <2>2, <2>6, <2>7
<1>13. PICK d : d = SubSeq(c, 1, 3)
  OBVIOUS
<1>14. Len(d) = 3 /\ \A i \in 1..3 : d[i] = c[i]
  <2>1. Len(d) = 3
    BY <1>13, PrefixLen
  <2>2. PICK S : S = {c[i] : i \in 1..3}
    OBVIOUS
  <2>3. 1 \in Int /\ 3 \in Int /\ \A i \in 1..3 : c[i] \in S
    BY <2>2
  <2>4. \A i \in 1..3 - 1 + 1 : d[i] = c[1 + i - 1]
    BY <1>13, <2>3, SubSeqProperties
  <2> QED
    BY <2>1, <2>4
<1>15. Number(d) = n
  <2>1. n \in Nat /\ Len(d) \in Nat /\ \A i \in 1..Len(d) : d[i] = (n \div Power[i - 1]) % Radix
    BY <1>12, <1>14
  <2>2. Number(d) = n % Power[Len(d)]
    BY ONLY <2>1, NumberOfDigits
  <2>3. n % p3 = n
    <3>1. p3 \in Nat \ {0}
      BY <1>10
    <3> QED
      BY ONLY <3>1, n \in 0..p3 - 1, SmallRemainder
  <2> QED
    BY <1>1, <1>14, <2>2, <2>3
<1>16. n % p3 = n
  <2>1. p3 \in Nat \ {0}
    BY <1>10
  <2> QED
    BY ONLY <2>1, n \in 0..p3 - 1, SmallRemainder
<1>17. e % Radix = e
  <2>1. Radix \in Nat \ {0}
    BY RadixAssumption
  <2> QED
    BY ONLY <2>1, e \in 0..Radix - 1, SmallRemainder
<1>18. (IF n < l THEN n ELSE n - (2 * l)) = m
  <2>1. n \in Int
    OBVIOUS
  <2>2. CASE m < 0
    <3>1. n = m + 2 * l /\ ~(n < l)
      BY ONLY <1>1, <1>9, <1>10, <2>1, <2>2, m \in Int, l \in Nat, p3 \in Nat
    <3>2. n - (2 * l) = m
      BY ONLY <3>1, <2>1, m \in Int, l \in Nat
    <3> QED
      BY <3>1, <3>2
  <2>3. CASE ~(m < 0)
    BY <1>9, <1>10, <2>3
  <2> QED
    BY <2>2, <2>3
<1>19. FromImage("FLOAT", c) =
         (IF (Number(d) % p3) < l THEN Number(d) % p3 ELSE (Number(d) % p3) - (2 * l)) * Unit(c[4] % Radix)
  <2>1. SubSeq(c, 1, Size["FLOAT"] - 1) = d /\ c[Size["FLOAT"]] = c[4]
    BY <1>0, <1>13
  <2> QED
    BY <1>0, <1>1, <2>1 DEF FromImage
<1>20. FromImage("FLOAT", c) = (IF n < l THEN n ELSE n - (2 * l)) * Unit(e)
  BY <1>12, <1>15, <1>16, <1>17, <1>19
<1> QED
  BY <1>3, <1>9, <1>18, <1>20

----------------------------------------------------------------------------
(* Reading back what an object keeps.                                      *)

\* What an object of each type keeps of the number w that it was given: a scalar
\* the number if its type has it, a string the text that shows it, an array the
\* bytes of its image.
KeepsScalar(d, w) ==
  Holds(d.type, w.h) /\ (w.as = "STRING" => d.type \notin {"BOOL", "POINTER"})
    => d.num \in Int /\ Quarters(d.type, d.num) = w.h

KeepsText(d, w) ==
  /\ d.alloc # Null
  /\ w.as = "BOOL" => (w.h = 4 /\ d.text = True) \/ (w.h = 0 /\ d.text = False)
  /\ w.as \notin {"BOOL", "POINTER"} => Shows(d.text, SixDecimals(w.h))

HasImage(d, w, v) == Quarters(w.as, v) = w.h /\ \A i \in 1..Size[w.as] : d.cells[i] = Image(w.as, v)[i]

KeepsBytes(d, w) ==
  /\ d.alloc # Null /\ w.as \in {"BOOL", "FLOAT"} \cup IntTypes /\ Size[w.as] <= d.len
  /\ \E v \in Samples(w.as) : HasImage(d, w, v)

Keeps(d, w) ==
  /\ w.h \in Int /\ d.type # "NULL"
  /\ d.type \in ScalarTypes => KeepsScalar(d, w)
  /\ d.type = "STRING" => KeepsText(d, w)
  /\ d.type = "BYTE_ARRAY" => KeepsBytes(d, w)

\* The getter returned the number.
Exact(r, s, h) == r.ret = "SUCCESS" /\ Quarters(s, r.v) = h

LEMMA GotExact ==
  ASSUME NEW d, NEW v, NEW s, NEW h, Quarters(s, v) = h
  PROVE  Exact(Got(d, v), s, h)
<1>1. Got(d, v).ret = "SUCCESS" /\ Got(d, v).v = v
  BY DEF Got, Outcome
<1> QED
  BY <1>1 DEF Exact

\* The getters by the kind of their type.
LEMMA GetAsKinds ==
  ASSUME NEW d, NEW s \in Gettable, NEW r \in get_as(s, d)
  PROVE  \/ s = "BOOL" /\ r \in cplus_data_get_as_bool(d)
         \/ s \in IntTypes /\ r \in GetAsInt(d, s, Format(s))
         \/ s \in FloatTypes /\ r \in GetAsFloat(d, s)
<1>1. CASE s = "BOOL"
  BY <1>1 DEF get_as
<1>2. CASE s \in {"INT8", "INT16", "INT32"}
  <2>1. Format(s) = "%d" /\ s \in IntTypes
    BY <1>2 DEF Format, IntTypes, SignedTypes
  <2>2. r \in GetAsInt(d, s, "%d")
    BY <1>2 DEF get_as, cplus_data_get_as_int8, cplus_data_get_as_int16, cplus_data_get_as_int32
  <2> QED
    BY <2>1, <2>2
<1>3. CASE s \in {"UINT8", "UINT16", "UINT32"}
  <2>1. Format(s) = "%u" /\ s \in IntTypes
    BY <1>3 DEF Format, IntTypes, UnsignedTypes
  <2>2. r \in GetAsInt(d, s, "%u")
    BY <1>3 DEF get_as, cplus_data_get_as_uint8, cplus_data_get_as_uint16, cplus_data_get_as_uint32
  <2> QED
    BY <2>1, <2>2
<1>4. CASE s = "INT64"
  BY <1>4 DEF get_as, cplus_data_get_as_int64, Format, IntTypes, SignedTypes
<1>5. CASE s = "UINT64"
  BY <1>5 DEF get_as, cplus_data_get_as_uint64, Format, IntTypes, UnsignedTypes
<1>6. CASE s \in FloatTypes
  BY <1>6 DEF get_as, cplus_data_get_as_float, cplus_data_get_as_double, FloatTypes
<1> QED
  BY <1>1, <1>2, <1>3, <1>4, <1>5, <1>6 DEF Gettable, ScalarTypes, IntTypes, SignedTypes, UnsignedTypes

\* Six decimals show a whole number, and a half, as it is.
LEMMA SixFacts ==
  ASSUME NEW h \in Int
  PROVE  SixDecimals(h) \in Int /\ (h % 2 = 0 => SixDecimals(h) = h)
<1>1. PICK a \in Int, g \in Int : a = AbsVal(h) /\ g = Sign(h) /\ (a = h \/ a = -h)
  BY DEF AbsVal, Sign
<1>2. PICK k \in Int, j \in Int : k = a \div 2 /\ j = k % 2
  OBVIOUS
<1>3. SixDecimals(h) = IF a % 2 = 0 THEN h ELSE g * 2 * (k + j)
  BY <1>1, <1>2 DEF SixDecimals
<1>4. g * 2 * (k + j) \in Int
  OBVIOUS
<1>5. h % 2 = 0 => a % 2 = 0
  BY <1>1
<1> QED
  BY <1>3, <1>4, <1>5

\* What the getters do with an object that is not locked.
LEMMA GetAsBoolBranch ==
  ASSUME NEW d, IsObj(d), ~d.lock, NEW r \in cplus_data_get_as_bool(d)
  PROVE  /\ d.type = "STRING" =>
              r = IF d.alloc # Null /\ d.text \in {True, False}
                  THEN Got(d, IF d.text = True THEN 1 ELSE 0) ELSE Failed(d)
         /\ d.type = "BYTE_ARRAY" =>
              r = IF d.alloc = Null \/ d.len = 0 THEN Failed(d)
                  ELSE Got(d, IF d.cells[1] > 0 THEN 1 ELSE 0)
         /\ d.type \notin {"NULL", "STRING", "BYTE_ARRAY"} => r = Got(d, IF d.num # 0 THEN 1 ELSE 0)
<1> DEFINE T == Slow \cup BufferTypes
           u == Released(Taken(d, T), T)
           O == CASE d.type = "NULL" -> {Failed(d)}
                  [] d.type = "STRING" ->
                       {IF d.alloc # Null /\ d.text \in {True, False}
                        THEN Got(u, IF d.text = True THEN 1 ELSE 0) ELSE Failed(u)}
                  [] d.type = "BYTE_ARRAY" ->
                       {IF d.alloc = Null \/ d.len = 0 THEN Failed(u)
                        ELSE Got(u, IF d.cells[1] > 0 THEN 1 ELSE 0)}
                  [] OTHER -> {Got(u, IF d.num # 0 THEN 1 ELSE 0)}
<1>1. r \in Spin(d, T, O)
  BY DEF cplus_data_get_as_bool
<1> HIDE DEF T, u, O
<1>2. r \in O /\ u = d
  BY <1>1, SpinReads DEF u
<1> QED
  BY <1>2 DEF O

LEMMA GetAsIntBranch ==
  ASSUME NEW d, IsObj(d), ~d.lock, NEW s, NEW fmt, NEW r \in GetAsInt(d, s, fmt)
  PROVE  /\ d.type = "STRING" /\ d.alloc # Null /\ d.text.form # "open" /\ ScanInt(fmt, d.text) # {}
              => \E n \in ScanInt(fmt, d.text) : r = Got(d, Wrap(s, n))
         /\ d.type = "BYTE_ARRAY" => r \in Overlay(d, s)
         /\ d.type \notin {"NULL", "STRING", "BYTE_ARRAY"}
              => \E v \in Scalar(d) : \E n \in Cast(s, d.type, v) : r = Got(d, n)
<1> DEFINE T == Slow \cup BufferTypes
           e == Taken(d, T)
           u == Released(e, T)
           U == IF ScanInt(fmt, e.text) = {} THEN {Failed(u)}
                ELSE {Got(u, Wrap(s, n)) : n \in ScanInt(fmt, e.text)}
           C == UNION {{Got(u, n) : n \in Cast(s, d.type, v)} : v \in Scalar(d)}
           O == CASE d.type = "NULL" -> {Failed(d)}
                  [] d.type = "STRING" ->
                       CASE e.alloc = Null -> {Stop("null", e)}
                         [] e.text.form = "open" -> {Stop("overread", e)}
                         [] OTHER -> U
                  [] d.type = "BYTE_ARRAY" -> Overlay(u, s)
                  [] OTHER -> C
<1>1. r \in Spin(d, T, O)
  BY DEF GetAsInt, WithText
<1> HIDE DEF T, e, u, U, C, O
<1>2. r \in O /\ u = d
  BY <1>1, SpinReads DEF e, u
<1>3. e.alloc = d.alloc /\ e.text = d.text
  BY TakenFacts DEF e
<1>4. /\ d.type = "STRING" /\ d.alloc # Null /\ d.text.form # "open" => r \in U
      /\ d.type = "BYTE_ARRAY" => r \in Overlay(d, s)
      /\ d.type \notin {"NULL", "STRING", "BYTE_ARRAY"} => r \in C
  BY <1>2, <1>3 DEF O
<1>5. ScanInt(fmt, d.text) # {} /\ r \in U => \E n \in ScanInt(fmt, d.text) : r = Got(d, Wrap(s, n))
  BY <1>2, <1>3 DEF U
<1>6. r \in C => \E v \in Scalar(d) : \E n \in Cast(s, d.type, v) : r = Got(d, n)
  BY <1>2 DEF C
<1> QED
  BY <1>4, <1>5, <1>6

LEMMA GetAsFloatBranch ==
  ASSUME NEW d, IsObj(d), ~d.lock, NEW s, NEW r \in GetAsFloat(d, s)
  PROVE  /\ d.type = "STRING" /\ d.alloc # Null /\ d.text.form # "open" /\ ScanFloat(s, d.text) # {}
              => \E h \in ScanFloat(s, d.text) : r = Got(d, h)
         /\ d.type = "BYTE_ARRAY" => r \in Overlay(d, s)
         /\ d.type \notin {"NULL", "STRING", "BYTE_ARRAY"}
              => \E v \in Scalar(d) : \E n \in Cast(s, d.type, v) : r = Got(d, n)
<1> DEFINE T == AllButNull
           e == Taken(d, T)
           u == Released(e, T)
           U == IF ScanFloat(s, e.text) = {} THEN {Failed(u)}
                ELSE {Got(u, h) : h \in ScanFloat(s, e.text)}
           C == UNION {{Got(u, h) : h \in Cast(s, d.type, v)} : v \in Scalar(d)}
           O == CASE d.type = "NULL" -> {Failed(d)}
                  [] d.type = "STRING" ->
                       CASE e.alloc = Null -> {Stop("null", e)}
                         [] e.text.form = "open" -> {Stop("overread", e)}
                         [] OTHER -> U
                  [] d.type = "BYTE_ARRAY" -> Overlay(u, s)
                  [] OTHER -> C
<1>1. r \in Spin(d, T, O)
  BY DEF GetAsFloat, WithText
<1> HIDE DEF T, e, u, U, C, O
<1>2. r \in O /\ u = d
  BY <1>1, SpinReads DEF e, u
<1>3. e.alloc = d.alloc /\ e.text = d.text
  BY TakenFacts DEF e
<1>4. /\ d.type = "STRING" /\ d.alloc # Null /\ d.text.form # "open" => r \in U
      /\ d.type = "BYTE_ARRAY" => r \in Overlay(d, s)
      /\ d.type \notin {"NULL", "STRING", "BYTE_ARRAY"} => r \in C
  BY <1>2, <1>3 DEF O
<1>5. ScanFloat(s, d.text) # {} /\ r \in U => \E h \in ScanFloat(s, d.text) : r = Got(d, h)
  BY <1>2, <1>3 DEF U
<1>6. r \in C => \E v \in Scalar(d) : \E n \in Cast(s, d.type, v) : r = Got(d, n)
  BY <1>2 DEF C
<1> QED
  BY <1>4, <1>5, <1>6

\* A number that both the object's type and the getter's type have is read from a
\* scalar exactly.
LEMMA ReadScalar ==
  ASSUME NEW d, IsObj(d), ~d.lock, d.type \in ScalarTypes, NEW w, w.h \in Int, KeepsScalar(d, w),
         NEW s \in Gettable, Carries(d.type, w, s), NEW r \in get_as(s, d)
  PROVE  Exact(r, s, w.h)
<1>1. d.type \notin {"NULL", "STRING", "BYTE_ARRAY"} /\ s \in ScalarTypes
  BY TypeFacts DEF Gettable
<1>2. /\ Holds(s, w.h) /\ Holds(d.type, w.h)
      /\ w.as = "STRING" => d.type \notin {"BOOL", "POINTER"}
  BY <1>1 DEF Carries, Kept
<1>3. d.num \in Int /\ Quarters(d.type, d.num) = w.h
  BY <1>2 DEF KeepsScalar
<1>4. Scalar(d) = {d.num}
  <2>1. CASE d.type = "BOOL"
    <3>1. w.h \in {0, 4} /\ w.h = 4 * d.num
      BY <1>2, <1>3, <2>1, KindFacts DEF Holds, Quarters
    <3>2. ~(d.num > 1)
      BY <1>3, <3>1
    <3> QED
      BY <3>2 DEF Scalar
  <2>2. CASE d.type # "BOOL"
    BY <2>2 DEF Scalar
  <2> QED
    BY <2>1, <2>2
<1>5. ASSUME \E v \in Scalar(d) : \E n \in Cast(s, d.type, v) : r = Got(d, n) PROVE Exact(r, s, w.h)
  <2>1. PICK n \in Cast(s, d.type, d.num) : r = Got(d, n)
    BY <1>4, <1>5
  <2>2. Holds(s, Quarters(d.type, d.num))
    BY <1>2, <1>3
  <2>3. Quarters(s, n) = w.h
    BY <1>1, <1>3, <2>2, CastExact
  <2> QED
    BY <2>1, <2>3, GotExact
<1>6. CASE s = "BOOL" /\ r \in cplus_data_get_as_bool(d)
  <2>1. r = Got(d, IF d.num # 0 THEN 1 ELSE 0)
    BY <1>1, <1>6, GetAsBoolBranch
  <2>2. PICK n \in Int : n = IF d.num # 0 THEN 1 ELSE 0
    OBVIOUS
  <2>3. w.h \in {0, 4}
    BY <1>2, <1>6, KindFacts DEF Holds
  <2>4. w.h = d.num \/ w.h = 4 * d.num
    BY <1>3 DEF Quarters
  <2>5. Quarters(s, n) = w.h
    BY <1>3, <1>6, <2>2, <2>3, <2>4, KindFacts DEF Quarters
  <2> QED
    BY <2>1, <2>2, <2>5, GotExact
<1>7. CASE s \in IntTypes /\ r \in GetAsInt(d, s, Format(s))
  BY <1>1, <1>5, <1>7, GetAsIntBranch
<1>8. CASE s \in FloatTypes /\ r \in GetAsFloat(d, s)
  BY <1>1, <1>5, <1>8, GetAsFloatBranch
<1> QED
  BY <1>6, <1>7, <1>8, GetAsKinds

\* The number that a text shows is read from it exactly.
LEMMA ReadText ==
  ASSUME NEW d, IsObj(d), ~d.lock, d.type = "STRING", NEW w, w.h \in Int, KeepsText(d, w),
         NEW s \in Gettable, Carries(d.type, w, s), NEW r \in get_as(s, d)
  PROVE  Exact(r, s, SixDecimals(w.h))
<1>0. PICK h \in Int : h = SixDecimals(w.h)
  BY SixFacts
<1>1. Holds(s, h) /\ w.as # "POINTER" /\ (s = "BOOL" <=> w.as = "BOOL") /\ d.alloc # Null
  BY <1>0 DEF Carries, Kept, KeepsText
<1>2. CASE s = "BOOL" /\ r \in cplus_data_get_as_bool(d)
  <2>1. (w.h = 4 /\ d.text = True) \/ (w.h = 0 /\ d.text = False)
    BY <1>1, <1>2 DEF KeepsText
  <2>2. True # False
    BY DEF True, False, Text
  <2>3. r = IF d.alloc # Null /\ d.text \in {True, False}
            THEN Got(d, IF d.text = True THEN 1 ELSE 0) ELSE Failed(d)
    BY <1>2, GetAsBoolBranch
  <2>4. PICK n \in Int : n = (IF d.text = True THEN 1 ELSE 0) /\ r = Got(d, n)
    BY <1>1, <2>1, <2>3
  <2>5. h = 4 * n
    <3>1. w.h = 4 * n /\ w.h % 2 = 0
      BY <2>1, <2>2, <2>4
    <3> QED
      BY <1>0, <3>1, SixFacts
  <2>6. Quarters(s, n) = h
    BY <1>2, <2>5, KindFacts DEF Quarters
  <2> QED
    BY <1>0, <2>4, <2>6, GotExact
<1>3. ASSUME s # "BOOL" PROVE Shows(d.text, h) /\ d.text.form # "open"
  BY <1>0, <1>1, <1>3 DEF KeepsText, Shows
<1>4. CASE s \in IntTypes /\ r \in GetAsInt(d, s, Format(s))
  <2>1. s # "BOOL" /\ s \in ScalarTypes
    BY <1>4, KindFacts
  <2>2. ScanInt(Format(s), d.text) = {h \div 4}
    BY <1>1, <1>3, <1>4, <2>1, ScanExact
  <2>3. PICK n \in ScanInt(Format(s), d.text) : r = Got(d, Wrap(s, n))
    <3>1. PICK fmt : fmt = Format(s)
      OBVIOUS
    <3>2. ScanInt(fmt, d.text) # {} /\ d.text.form # "open" /\ r \in GetAsInt(d, s, fmt)
      BY <1>3, <1>4, <2>1, <2>2, <3>1
    <3>3. \E n \in ScanInt(fmt, d.text) : r = Got(d, Wrap(s, n))
      BY <1>1, <3>2, GetAsIntBranch
    <3> QED
      BY <3>1, <3>3
  <2>4. n = h \div 4
    BY <2>2
  <2>5. n \in Lo(s)..Hi(s) /\ 4 * n = h
    BY <1>1, <1>4, <2>4, HoldsInt
  <2>6. Wrap(s, n) = n
    BY <2>1, <2>5, WrapSame
  <2>7. Quarters(s, n) = h
    BY <1>4, <2>5, KindFacts DEF Quarters
  <2> QED
    BY <1>0, <2>3, <2>6, <2>7, GotExact
<1>5. CASE s \in FloatTypes /\ r \in GetAsFloat(d, s)
  <2>1. s # "BOOL"
    BY <1>5, KindFacts
  <2>2. ScanFloat(s, d.text) = {h}
    BY <1>1, <1>3, <1>5, <2>1, ScanFloatExact
  <2>3. PICK n \in ScanFloat(s, d.text) : r = Got(d, n)
    BY <1>1, <1>3, <1>5, <2>1, <2>2, GetAsFloatBranch
  <2>4. Quarters(s, n) = h
    BY <1>5, <2>2 DEF Quarters
  <2> QED
    BY <1>0, <2>3, <2>4, GotExact
<1> QED
  BY <1>2, <1>4, <1>5, GetAsKinds

\* The bytes that a getter copies from an array over the caller's scalar.
LEMMA FillPrefix ==
  ASSUME NEW c, NEW n \in Nat, Len(c) \in Nat, n <= Len(c), NEW f \in Fill(c, n)
  PROVE  Len(f) = n /\ \A i \in 1..n : f[i] = c[i]
<1>1. PICK b : f = [i \in 1..n |-> IF i <= Len(c) THEN c[i] ELSE b]
  BY DEF Fill
<1>2. \A i \in 1..n : f[i] = c[i]
  BY <1>1
<1> QED
  BY <1>2, FillLen

\* A number is read exactly from the bytes of its image.
LEMMA ReadBytes ==
  ASSUME NEW d, NEW m, Sound(d, m), ~d.lock, d.type = "BYTE_ARRAY", NEW w, w.h \in Int,
         KeepsBytes(d, w), NEW s \in Gettable, Carries(d.type, w, s), NEW r \in get_as(s, d)
  PROVE  Exact(r, s, w.h)
<1>0. IsObj(d)
  BY DEF Sound
<1>1. PICK u \in {"BOOL", "FLOAT"} \cup IntTypes : u = w.as
  BY DEF KeepsBytes
<1>2. /\ u \in ScalarTypes /\ s \in ScalarTypes /\ u # "STRING" /\ u # "DOUBLE"
      /\ u \in FloatTypes <=> u = "FLOAT"
  BY KindFacts, TypeFacts DEF Gettable, FloatTypes, IntTypes, SignedTypes, UnsignedTypes
<1>3. /\ Holds(s, w.h) /\ d.alloc # Null
      /\ s = u \/ (s \notin FloatTypes /\ u \notin FloatTypes /\ Size[s] <= Size[u])
  <2>1. s = w.as \/ ({s, w.as} \cap (FloatTypes \cup {"STRING"}) = {} /\ Size[s] <= Size[w.as])
    BY DEF Carries
  <2> QED
    BY <1>1, <2>1 DEF Carries, Kept, KeepsBytes
<1>4. PICK v \in Samples(u) : HasImage(d, w, v)
  BY <1>1 DEF KeepsBytes
<1>5. v \in Int /\ Quarters(u, v) = w.h /\ \A i \in 1..Size[u] : d.cells[i] = Image(u, v)[i]
  BY <1>1, <1>2, <1>4, SampleInt DEF HasImage
<1>6. /\ Size[u] \in Nat \ {0} /\ Size[s] \in Nat \ {0} /\ d.len \in Nat /\ Len(d.cells) = d.len
      /\ Size[u] <= d.len /\ Size[s] <= Size[u]
  <2>1. d.len \in Nat /\ Len(d.cells) = d.len /\ Size[u] <= d.len
    BY <1>1 DEF KeepsBytes, Sound, IsObj, ArraySound
  <2>2. Size[u] \in Nat \ {0} /\ Size[s] \in Nat \ {0}
    BY <1>2, SizePositive
  <2> QED
    BY <1>3, <2>1, <2>2
<1>7. CASE s = "BOOL" /\ r \in cplus_data_get_as_bool(d)
  <2>1. u \notin FloatTypes
    BY <1>3, <1>7, KindFacts
  <2>2. w.h \in {0, 4} /\ w.h = 4 * v
    BY <1>3, <1>5, <1>7, <2>1, KindFacts DEF Holds, Quarters
  <2>3. v \in {0, 1}
    BY <1>5, <2>2
  <2>4. d.cells[1] = v
    <3>1. 1 \in 1..Size[u]
      BY <1>6
    <3>2. Image(u, v)[1] = v
      BY <1>2, <2>1, <2>3, ImageReadBool
    <3> QED
      BY <1>5, <3>1, <3>2
  <2>5. r = IF d.alloc = Null \/ d.len = 0 THEN Failed(d) ELSE Got(d, IF d.cells[1] > 0 THEN 1 ELSE 0)
    BY <1>0, <1>7, GetAsBoolBranch
  <2>6. d.len # 0
    BY <1>6
  <2>7. (IF d.cells[1] > 0 THEN 1 ELSE 0) = v
    BY <2>3, <2>4
  <2>8. r = Got(d, v)
    BY <1>3, <2>5, <2>6, <2>7
  <2>9. Quarters(s, v) = w.h
    BY <1>7, <2>2, KindFacts DEF Quarters
  <2> QED
    BY <2>8, <2>9, GotExact
<1>8. ASSUME r \in Overlay(d, s)
      PROVE  \E c : r = Got(d, FromImage(s, c)) /\ Len(c) = Size[s] /\ \A i \in 1..Size[s] : c[i] = Image(u, v)[i]
  <2>1. PICK c \in Fill(d.cells, Size[s]) : r = Got(d, FromImage(s, c))
    BY <1>8 DEF Overlay
  <2>2. PICK n \in Nat : n = Size[s] /\ n <= Len(d.cells) /\ Len(d.cells) \in Nat
    BY <1>6
  <2>3. Len(c) = n /\ \A i \in 1..n : c[i] = d.cells[i]
    BY <2>1, <2>2, FillPrefix
  <2>4. \A i \in 1..n : i \in 1..Size[u]
    BY <1>6, <2>2
  <2> QED
    BY <1>5, <2>1, <2>2, <2>3, <2>4
<1>9. CASE s \in IntTypes /\ r \in GetAsInt(d, s, Format(s))
  <2>1. PICK fmt : fmt = Format(s)
    OBVIOUS
  <2>2. r \in Overlay(d, s)
    BY <1>0, <1>9, <2>1, GetAsIntBranch
  <2>3. PICK c : r = Got(d, FromImage(s, c)) /\ Len(c) = Size[s] /\ \A i \in 1..Size[s] : c[i] = Image(u, v)[i]
    BY <1>8, <2>2
  <2>4. u \notin FloatTypes
    BY <1>3, <1>9, KindFacts
  <2>5. v \in Lo(s)..Hi(s) /\ 4 * v = w.h
    <3>1. w.h = 4 * v
      BY <1>5, <2>4 DEF Quarters
    <3>2. w.h \div 4 \in Lo(s)..Hi(s)
      BY <1>3, <1>9, HoldsInt
    <3>3. w.h \div 4 = v
      BY <1>5, <3>1
    <3> QED
      BY <3>1, <3>2, <3>3
  <2>6. FromImage(s, c) = v
    BY <1>2, <1>6, <1>9, <2>3, <2>4, <2>5, ImageReadInt
  <2>7. Quarters(s, v) = w.h
    BY <1>9, <2>5, KindFacts DEF Quarters
  <2> QED
    BY <2>3, <2>6, <2>7, GotExact
<1>10. CASE s \in FloatTypes /\ r \in GetAsFloat(d, s)
  <2>1. s = "FLOAT" /\ u = "FLOAT"
    BY <1>2, <1>3, <1>10
  <2>2. r \in Overlay(d, s)
    BY <1>0, <1>10, GetAsFloatBranch
  <2>3. PICK c : r = Got(d, FromImage(s, c)) /\ Len(c) = Size[s] /\ \A i \in 1..Size[s] : c[i] = Image(u, v)[i]
    BY <1>8, <2>2
  <2>4. Size[s] = 4
    BY <2>1 DEF Size, ScalarTypes, IntTypes, SignedTypes, UnsignedTypes, FloatTypes
  <2>5. v = w.h
    BY <1>5, <1>10, <2>1 DEF Quarters
  <2>6. Nearest("FLOAT", v) = v
    BY <1>3, <2>1, <2>5, KindFacts DEF Holds, FloatTypes
  <2>7. v \in Int /\ InFloat(v)
    BY <1>4, <2>1, FloatSamples
  <2>8. FromImage("FLOAT", c) = v
    BY <2>1, <2>3, <2>4, <2>6, <2>7, ImageReadFloat
  <2>9. Quarters(s, v) = w.h
    BY <1>10, <2>5 DEF Quarters
  <2> QED
    BY <2>1, <2>3, <2>8, <2>9, GotExact
<1> QED
  BY <1>7, <1>9, <1>10, GetAsKinds

\* Every getter returns the number that the object keeps of the one it was given,
\* if it can.
LEMMA ReadsExact ==
  ASSUME NEW d, NEW m, Sound(d, m), ~d.lock, NEW w, Keeps(d, w), NEW s \in Gettable,
         Carries(d.type, w, s), NEW r \in get_as(s, d)
  PROVE  Exact(r, s, Kept(d.type, w))
<1>1. w.h \in Int /\ d.type \in ScalarTypes \cup {"STRING", "BYTE_ARRAY"} /\ IsObj(d)
  BY DEF Keeps, Sound, IsObj, DataTypes, BufferTypes
<1> QED
  BY <1>1, ReadScalar, ReadText, ReadBytes, TypeFacts DEF Keeps, Kept

----------------------------------------------------------------------------
(* What the calls that write an object make it keep.                       *)

\* Only these fields matter.
LEMMA KeepsSame ==
  ASSUME NEW d, NEW e, NEW w, Keeps(d, w), e.type = d.type, e.num = d.num, e.text = d.text,
         e.cells = d.cells, e.len = d.len, e.alloc = d.alloc
  PROVE  Keeps(e, w)
  BY DEF Keeps, KeepsScalar, KeepsText, KeepsBytes, HasImage

LEMMA StoredKeeps ==
  ASSUME NEW d, NEW m, Sound(d, m), d.type \in ScalarTypes, NEW n, NEW w, w.h \in Int,
         Holds(d.type, w.h) /\ (w.as = "STRING" => d.type \notin {"BOOL", "POINTER"})
           => n \in Int /\ Quarters(d.type, n) = w.h,
         NEW e, e = [d EXCEPT !.num = n, !.valid = TRUE]
  PROVE  Keeps(e, w)
<1>1. e.num = n /\ e.type = d.type /\ d.type \notin {"NULL", "STRING", "BYTE_ARRAY"}
  BY TypeFacts DEF Sound, IsObj
<1> QED
  BY <1>1 DEF Keeps, KeepsScalar

LEMMA FailedKept ==
  ASSUME NEW d, NEW how, NEW v
  PROVE  ~Failed(d).kept /\ ~Stop(how, d).kept /\ ~Got(d, v).kept
  BY DEF Failed, Stop, Got, Outcome

\* A string that kept the text has it.
LEMMA SetStringKept ==
  ASSUME NEW d, NEW m, Sound(d, m), d.type = "STRING", NEW n, NEW x, NEW r \in SetString(d, n, x), r.kept
  PROVE  r.d.type = "STRING" /\ r.d.alloc # Null /\ r.d.text = x
<1> DEFINE grows == d.alloc = Null \/ n + 1 > d.len
           len == IF grows THEN n + 1 ELSE d.len
           text == IF x = NoText THEN Empty ELSE Cut(x, len)
<1>1. PICK a \in IF grows THEN Allocate(n + 1) ELSE {d.alloc} :
        r = IF a = Null
            THEN Failed([d EXCEPT !.len = len, !.alloc = Null, !.text = NoText, !.lock = FALSE])
            ELSE Outcome("SUCCESS", [d EXCEPT !.len = len, !.alloc = a, !.text = text, !.valid = TRUE,
                                              !.lock = FALSE],
                         0, text = x)
  BY DEF SetString
<1> HIDE DEF grows, len, text
<1>2. a # Null
  BY <1>1, FailedKept
<1>3. PICK e : e = [d EXCEPT !.len = len, !.alloc = a, !.text = text, !.valid = TRUE, !.lock = FALSE]
  OBVIOUS
<1>4. r = Outcome("SUCCESS", e, 0, text = x)
  BY <1>1, <1>2, <1>3
<1>5. r.d = e /\ text = x
  BY <1>4 DEF Outcome
<1>6. e.type = "STRING" /\ e.alloc = a /\ e.text = text
  BY <1>3 DEF Sound, IsObj
<1> QED
  BY <1>2, <1>5, <1>6

LEMMA PrefixOf ==
  ASSUME NEW c, NEW n \in Nat
  PROVE  \A i \in 1..n : SubSeq(c, 1, n)[i] = c[i]
<1>1. PICK S : S = {c[i] : i \in 1..n}
  OBVIOUS
<1>2. 1 \in Int /\ n \in Int /\ \A i \in 1..n : c[i] \in S
  BY <1>1
<1>3. \A i \in 1..n - 1 + 1 : SubSeq(c, 1, n)[i] = c[1 + i - 1]
  BY <1>2, SubSeqProperties
<1> QED
  BY <1>3

\* An array that kept the bytes has them.
LEMMA SetBytesKept ==
  ASSUME NEW d, NEW m, Sound(d, m), d.type = "BYTE_ARRAY", NEW n \in Nat, NEW cells, NEW text,
         NEW r \in SetBytes(d, n, cells, text), r.kept
  PROVE  /\ r.d.type = "BYTE_ARRAY" /\ r.d.alloc # Null /\ r.d.len = n
         /\ \A i \in 1..n : r.d.cells[i] = cells[i]
<1> DEFINE grows == d.alloc = Null \/ n > d.len
           size == IF grows THEN n ELSE d.len
           new == [d EXCEPT !.len = n, !.size = size, !.lock = FALSE]
           c == SubSeq(cells, 1, n)
<1>1. PICK a \in IF grows THEN Allocate(n) ELSE {d.alloc} :
        r = IF a = Null
            THEN Failed([new EXCEPT !.alloc = Null, !.cells = <<>>, !.text = NoText])
            ELSE Outcome("SUCCESS",
                   [new EXCEPT !.alloc = a, !.cells = c, !.text = text, !.valid = TRUE], 0, TRUE)
  BY DEF SetBytes
<1>2. \A i \in 1..n : c[i] = cells[i]
  BY PrefixOf
<1> HIDE DEF grows, size, c
<1>3. a # Null
  BY <1>1, FailedKept
<1>4. PICK e : e = [new EXCEPT !.alloc = a, !.cells = c, !.text = text, !.valid = TRUE]
  OBVIOUS
<1>5. r = Outcome("SUCCESS", e, 0, TRUE)
  BY <1>1, <1>3, <1>4
<1>6. r.d = e
  BY <1>5 DEF Outcome
<1>7. e.type = "BYTE_ARRAY" /\ e.alloc = a /\ e.len = n /\ e.cells = c
  BY <1>4 DEF Sound, IsObj
<1> QED
  BY <1>2, <1>3, <1>6, <1>7

\* A call that goes on after the setter it used keeps what that kept.
GoesOn(q, r) ==
  \E how : q = IF r.ret \in Stops THEN r ELSE [r EXCEPT !.ret = how, !.d.valid = TRUE]

LEMMA AfterKeeps ==
  ASSUME NEW r, IsOut(r), IsObj(r.d), NEW q, GoesOn(q, r)
  PROVE  /\ q.kept = r.kept /\ q.d.type = r.d.type /\ q.d.num = r.d.num /\ q.d.text = r.d.text
         /\ q.d.cells = r.d.cells /\ q.d.len = r.d.len /\ q.d.alloc = r.d.alloc
<1>0. PICK how : q = IF r.ret \in Stops THEN r ELSE [r EXCEPT !.ret = how, !.d.valid = TRUE]
  BY DEF GoesOn
<1>1. CASE r.ret \notin Stops
  <2>1. PICK e : e = [r.d EXCEPT !.valid = TRUE]
    OBVIOUS
  <2>2. q.kept = r.kept /\ q.d = e
    BY <1>0, <1>1, <2>1 DEF IsOut
  <2>3. /\ e.type = r.d.type /\ e.num = r.d.num /\ e.text = r.d.text
        /\ e.cells = r.d.cells /\ e.len = r.d.len /\ e.alloc = r.d.alloc
    BY <2>1 DEF IsObj
  <2> QED
    BY <2>2, <2>3
<1> QED
  BY <1>0, <1>1

\* A value that cplus_data_set_value kept in a string, or in an array, is there.
LEMMA SetValueText ==
  ASSUME NEW d, NEW m, Sound(d, m), d.type = "STRING", NEW arg, arg.n \in Nat, Ended(arg.text),
         NEW r \in cplus_data_set_value(d, arg), r.kept
  PROVE  /\ IsOut(r) /\ IsObj(r.d)
         /\ r.d.type = "STRING" /\ r.d.alloc # Null /\ r.d.text = arg.text
<1>0. PICK T, e, u : T = Slow \cup BufferTypes /\ e = Taken(d, T) /\ u = Released(e, T)
  OBVIOUS
<1>1. r \in Spin(d, T, SetString(e, arg.n, arg.text))
  BY <1>0 DEF cplus_data_set_value
<1>2. PICK n, x : n = arg.n /\ x = arg.text /\ n \in Nat /\ Ended(x)
  OBVIOUS
<1>3. r \in SetString(e, n, x)
  BY <1>1, <1>2, SpinReads, FailedKept DEF Sound
<1>4. Sound(e, m) /\ e.type = "STRING"
  BY <1>0, TakenFacts DEF Sound
<1>5. Sets(r, m)
  BY <1>2, <1>3, <1>4, SetStringSets
<1>6. r.d.type = "STRING" /\ r.d.alloc # Null /\ r.d.text = x
  BY <1>3, <1>4, SetStringKept
<1> QED
  BY <1>2, <1>5, <1>6 DEF Sets, Ends, Sound

LEMMA SetValueBytes ==
  ASSUME NEW d, NEW m, Sound(d, m), d.type = "BYTE_ARRAY", NEW arg, arg.n \in Nat,
         NEW r \in cplus_data_set_value(d, arg), r.kept
  PROVE  /\ IsOut(r) /\ IsObj(r.d) /\ ~d.lock
         /\ r.d.type = "BYTE_ARRAY" /\ r.d.alloc # Null /\ r.d.len = arg.n
         /\ \A i \in 1..arg.n : r.d.cells[i] = arg.cells[i]
<1>0. PICK T, e, u : T = Slow \cup BufferTypes /\ e = Taken(d, T) /\ u = Released(e, T)
  OBVIOUS
<1>1. r \in Spin(d, T, SetBytes(e, arg.n, arg.cells, arg.text)) /\ d.type \in T
  BY <1>0, TypeFacts DEF cplus_data_set_value
<1>2. PICK n, x, c : n = arg.n /\ x = arg.text /\ c = arg.cells /\ n \in Nat
  OBVIOUS
<1>3. r \in SetBytes(e, n, c, x) /\ ~d.lock
  BY <1>1, <1>2, FailedKept DEF Spin
<1>4. Sound(e, m) /\ e.type = "BYTE_ARRAY"
  BY <1>0, TakenFacts DEF Sound
<1>5. Sets(r, m)
  BY <1>2, <1>3, <1>4, SetBytesSets
<1>6. /\ r.d.type = "BYTE_ARRAY" /\ r.d.alloc # Null /\ r.d.len = n
      /\ \A i \in 1..n : r.d.cells[i] = c[i]
  BY <1>2, <1>3, <1>4, SetBytesKept
<1> QED
  BY <1>2, <1>3, <1>5, <1>6 DEF Sets, Ends, Sound

\* What is printed of a number shows it, rounded to six decimals.
LEMMA PrintedShows ==
  ASSUME NEW s \in ScalarTypes, NEW v \in Samples(s)
  PROVE  /\ s = "BOOL" => (Quarters(s, v) = 4 /\ Printed(s, v) = True)
                          \/ (Quarters(s, v) = 0 /\ Printed(s, v) = False)
         /\ s \notin {"BOOL", "POINTER"} => Shows(Printed(s, v), SixDecimals(Quarters(s, v)))
<1>0. v \in Int
  BY SampleInt
<1>1. CASE s = "BOOL"
  <2>1. v \in {0, 1}
    BY <1>1, KindFacts DEF Samples
  <2>2. Printed(s, v) = IF v # 0 THEN True ELSE False
    BY <1>1, KindFacts DEF Printed
  <2>3. Quarters(s, v) = 4 * v
    BY <1>1, KindFacts DEF Quarters
  <2> QED
    BY <1>1, <2>1, <2>2, <2>3
<1>2. CASE s \in FloatTypes
  <2>0. PICK h \in Int : h = SixDecimals(v)
    BY <1>0, SixFacts
  <2>1. Printed(s, v) = Text("fix", h) /\ Quarters(s, v) = v
    BY <1>2, <2>0, KindFacts DEF Printed, Quarters
  <2>2. Text("fix", h).form = "fix" /\ Text("fix", h).n = h
    BY DEF Text
  <2> QED
    BY <1>2, <2>0, <2>1, <2>2, KindFacts DEF Shows
<1>3. CASE s \in IntTypes
  <2>1. Printed(s, v) = Text("dec", v) /\ Quarters(s, v) = 4 * v
    BY <1>3, KindFacts DEF Printed, Quarters
  <2>2. Text("dec", v).form = "dec" /\ Text("dec", v).n = v
    BY DEF Text
  <2>3. SixDecimals(4 * v) = 4 * v
    <3>1. 4 * v \in Int /\ (4 * v) % 2 = 0
      BY <1>0
    <3> QED
      BY ONLY <3>1, SixFacts
  <2> QED
    BY <1>0, <1>3, <2>1, <2>2, <2>3, KindFacts DEF Shows
<1> QED
  BY <1>1, <1>2, <1>3, KindFacts

LEMMA SetAsKeeps ==
  ASSUME NEW d, NEW m, Sound(d, m), NEW T, NEW s \in ScalarTypes, NEW v \in Samples(s),
         NEW r \in SetAs(d, T, s, v), r.kept, s \in {"DOUBLE", "POINTER"} => T = DataTypes,
         NEW w, w.as = s, w.h = Quarters(s, v)
  PROVE  Keeps(r.d, w)
<1>0. v \in Int /\ w.h \in Int
  BY SampleInt DEF Quarters
<1>a. PICK e, u : e = Taken(d, T) /\ u = Released(e, T)
  OBVIOUS
<1> DEFINE A == Argument(0, Size[s], NoText, Image(s, v))
           O == CASE d.type = "NULL" -> {Failed(u)}
                  [] d.type = "STRING" -> SetString(e, TextLen(Printed(s, v)), Printed(s, v))
                  [] d.type = "BYTE_ARRAY" -> Ignore(cplus_data_set_value(e, A))
                  [] OTHER -> {Stored(u, n) : n \in Cast(d.type, s, v)}
<1>b. r \in Spin(d, T, O)
  BY <1>a DEF SetAs
<1> HIDE DEF O
<1>c. r \in O /\ u = d
  BY <1>a, <1>b, SpinReads, FailedKept DEF Sound
<1>d. Sound(e, m) /\ e.type = d.type /\ (d.type \in T => e.lock)
  BY <1>a, TakenFacts DEF Sound
<1>1. CASE d.type = "NULL"
  <2>1. r = Failed(d)
    BY <1>1, <1>c DEF O
  <2> QED
    BY <2>1, FailedKept
<1>2. CASE d.type = "STRING"
  <2>1. r \in SetString(e, TextLen(Printed(s, v)), Printed(s, v))
    BY <1>2, <1>c DEF O
  <2>2. r.d.type = "STRING" /\ r.d.alloc # Null /\ r.d.text = Printed(s, v)
    BY <1>2, <1>d, <2>1, SetStringKept
  <2>3. KeepsText(r.d, w)
    BY <2>2, PrintedShows DEF KeepsText
  <2> QED
    BY <1>0, <2>2, <2>3, TypeFacts DEF Keeps
<1>3. CASE d.type = "BYTE_ARRAY"
  <2>1. r \in Ignore(cplus_data_set_value(e, A))
    BY <1>3, <1>c DEF O
  <2>2. A.n = Size[s] /\ A.n \in Nat /\ A.cells = Image(s, v) /\ Ended(A.text)
    BY SizeFacts, NoTextEnded DEF Argument
  <2> HIDE DEF A
  <2>3. PICK q \in cplus_data_set_value(e, A) :
          r = IF q.ret \in Stops THEN q ELSE [q EXCEPT !.ret = "SUCCESS", !.d.valid = TRUE]
    BY <2>1 DEF Ignore, After
  <2>4. IsOut(q) /\ IsObj(q.d)
    <3>1. Usable(e)
      BY <1>3, <1>d DEF Usable
    <3>2. Sets(q, m)
      BY <1>d, <2>2, <3>1, SetValueSets
    <3> QED
      BY <3>2 DEF Sets, Ends, Sound
  <2>5. /\ r.kept = q.kept /\ r.d.type = q.d.type /\ r.d.alloc = q.d.alloc
        /\ r.d.cells = q.d.cells /\ r.d.len = q.d.len
    <3>1. GoesOn(r, q)
      BY <2>3 DEF GoesOn
    <3> QED
      BY <3>1, <2>4, AfterKeeps
  <2>6. /\ q.d.type = "BYTE_ARRAY" /\ q.d.alloc # Null /\ q.d.len = Size[s] /\ ~e.lock
        /\ \A i \in 1..Size[s] : q.d.cells[i] = Image(s, v)[i]
    <3>1. /\ q.d.type = "BYTE_ARRAY" /\ q.d.alloc # Null /\ q.d.len = A.n /\ ~e.lock
          /\ \A i \in 1..A.n : q.d.cells[i] = A.cells[i]
      BY <1>3, <1>d, <2>2, <2>3, <2>5, SetValueBytes
    <3> QED
      BY <2>2, <3>1
  <2>7. s \in {"BOOL", "FLOAT"} \cup IntTypes
    <3>1. d.type \in DataTypes
      BY DEF Sound, IsObj
    <3>2. s \notin {"DOUBLE", "POINTER"}
      BY <1>d, <2>6, <3>1
    <3> QED
      BY <3>2 DEF ScalarTypes, FloatTypes
  <2>8. HasImage(r.d, w, v)
    BY <2>5, <2>6 DEF HasImage
  <2>9. KeepsBytes(r.d, w)
    BY <2>2, <2>5, <2>6, <2>7, <2>8 DEF KeepsBytes
  <2> QED
    BY <1>0, <2>5, <2>6, <2>9, TypeFacts DEF Keeps
<1>4. CASE d.type \notin {"NULL", "STRING", "BYTE_ARRAY"}
  <2>1. d.type \in ScalarTypes
    BY <1>4 DEF Sound, IsObj, DataTypes, BufferTypes
  <2>2. PICK n \in Cast(d.type, s, v) : r = Stored(d, n)
    BY <1>4, <1>c DEF O
  <2>3. PICK f : f = [d EXCEPT !.num = n, !.valid = TRUE]
    OBVIOUS
  <2>4. r.d = f
    BY <2>2, <2>3 DEF Stored, Outcome
  <2>5. Holds(d.type, w.h) => n \in Int /\ Quarters(d.type, n) = w.h
    BY <1>0, <2>1, <2>2, CastExact
  <2> QED
    BY <1>0, <2>1, <2>3, <2>4, <2>5, StoredKeeps
<1> QED
  BY <1>1, <1>2, <1>3, <1>4

LEMMA SetAsScalarKeeps ==
  ASSUME NEW d, NEW m, Sound(d, m), NEW s \in ScalarTypes, NEW v \in Samples(s), NEW r \in set_as(s, d, v),
         r.kept, NEW w, w.as = s, w.h = Quarters(s, v)
  PROVE  Keeps(r.d, w)
<1>1. CASE s = "BOOL" /\ d.type = "STRING" /\ r \in cplus_data_set_as_bool(d, v)
  <2> DEFINE x == Printed("BOOL", v)
             A == Argument(0, TextLen(x), x, <<>>)
  <2>1. r \in Ignore(cplus_data_set_value(d, A))
    BY <1>1 DEF cplus_data_set_as_bool
  <2>2. A.n \in Nat /\ Ended(A.text) /\ A.text = Printed(s, v)
    BY <1>1, PrintedFacts DEF Argument
  <2> HIDE DEF A
  <2>3. PICK q \in cplus_data_set_value(d, A) :
          r = IF q.ret \in Stops THEN q ELSE [q EXCEPT !.ret = "SUCCESS", !.d.valid = TRUE]
    BY <2>1 DEF Ignore, After
  <2>4. q.kept
    <3>1. CASE q.ret \in Stops
      BY <2>3, <3>1
    <3>2. CASE q.ret \notin Stops
      <4>1. PICK T, e : T = Slow \cup BufferTypes /\ e = Taken(d, T)
        OBVIOUS
      <4>2. q \in Spin(d, T, SetString(e, A.n, A.text))
        BY <1>1, <4>1 DEF cplus_data_set_value
      <4>3. q \in SetString(e, A.n, A.text)
        <5>1. Stop("hang", d).ret \in Stops
          BY SimpleOutcomes DEF Stops
        <5> QED
          BY <3>2, <4>2, <5>1, SpinReads DEF Sound
      <4>4. Sound(e, m) /\ e.type = "STRING"
        BY <1>1, <4>1, TakenFacts DEF Sound
      <4>5. PICK n, y : n = A.n /\ y = A.text /\ n \in Nat /\ Ended(y)
        BY <2>2
      <4>6. Sets(q, m)
        BY <4>3, <4>4, <4>5, SetStringSets
      <4> QED
        BY <2>3, <3>2, <4>6 DEF Sets, Ends, IsOut
    <3> QED
      BY <3>1, <3>2
  <2>5. IsOut(q) /\ IsObj(q.d) /\ q.d.type = "STRING" /\ q.d.alloc # Null /\ q.d.text = Printed(s, v)
    BY <1>1, <2>2, <2>4, SetValueText
  <2>6. r.d.type = q.d.type /\ r.d.text = q.d.text /\ r.d.alloc = q.d.alloc
    <3>1. GoesOn(r, q)
      BY <2>3 DEF GoesOn
    <3> QED
      BY <3>1, <2>5, AfterKeeps
  <2>7. KeepsText(r.d, w)
    BY <2>5, <2>6, PrintedShows DEF KeepsText
  <2>8. w.h \in Int
    BY SampleInt DEF Quarters
  <2> QED
    BY <2>5, <2>6, <2>7, <2>8, TypeFacts DEF Keeps
<1>2. ASSUME NEW T, r \in SetAs(d, T, s, v), s \in {"DOUBLE", "POINTER"} => T = DataTypes
      PROVE  Keeps(r.d, w)
  BY <1>2, SetAsKeeps
<1>3. s = "BOOL" /\ d.type # "STRING" /\ r \in cplus_data_set_as_bool(d, v)
      => \E T : r \in SetAs(d, T, s, v)
  BY DEF cplus_data_set_as_bool
<1> QED
  BY <1>1, <1>2, <1>3, SetAsKinds

\* The number a text shows.
LEMMA ShownFacts ==
  ASSUME NEW x, x.n \in Int, x.form = "fix" => SixDecimals(x.n) = x.n, Shown(x) # Nothing
  PROVE  /\ Shows(x, Shown(x).h) /\ Shown(x).as = "STRING" /\ Shown(x).h \in Int
         /\ SixDecimals(Shown(x).h) = Shown(x).h
<1>1. CASE x.form = "dec"
  <2>1. Shown(x) = [as |-> "STRING", h |-> 4 * x.n]
    BY <1>1 DEF Shown
  <2>2. SixDecimals(4 * x.n) = 4 * x.n
    <3>1. PICK h \in Int : h = 4 * x.n /\ h % 2 = 0
      OBVIOUS
    <3> QED
      BY <3>1, SixFacts
  <2> QED
    BY <1>1, <2>1, <2>2 DEF Shows
<1>2. CASE x.form = "fix"
  <2>1. Shown(x) = [as |-> "STRING", h |-> x.n]
    BY <1>2 DEF Shown
  <2> QED
    BY <1>2, <2>1 DEF Shows
<1>3. CASE x.form \notin {"dec", "fix"}
  BY <1>3 DEF Shown
<1> QED
  BY <1>1, <1>2, <1>3

\* A string keeps the number that its text shows.
LEMMA TextKeeps ==
  ASSUME NEW x, x.n \in Int, x.form = "fix" => SixDecimals(x.n) = x.n, NEW w, w = Shown(x), w # Nothing,
         NEW d, d.type = "STRING" /\ d.alloc # Null /\ d.text = x
  PROVE  Keeps(d, w)
<1>1. Shows(x, w.h) /\ w.as = "STRING" /\ w.h \in Int /\ SixDecimals(w.h) = w.h
  BY ShownFacts
<1> QED
  BY <1>1, TypeFacts DEF Keeps, KeepsText

LEMMA SetAsStringKeeps ==
  ASSUME NEW d, NEW m, Sound(d, m), NEW n \in Nat, NEW x, Ended(x), x.n \in Int,
         x.form = "fix" => SixDecimals(x.n) = x.n,
         NEW r \in cplus_data_set_as_string(d, n, x), r.kept, NEW w, w = Shown(x), w # Nothing
  PROVE  Keeps(r.d, w)
<1>0. PICK u : u = Released(Taken(d, ScalarTypes), ScalarTypes)
  OBVIOUS
<1> DEFINE A == Argument(0, n, x, <<>>)
           B == Argument(0, n, x, Chars(x, n))
           F == After(cplus_data_set_value(d, B), LAMBDA q : "FAIL")
           C == IF Parsed(d.type, x) = {} THEN {Failed([u EXCEPT !.valid = TRUE])}
                ELSE {[Stored(u, n2) EXCEPT !.ret = "FAIL"] : n2 \in Parsed(d.type, x)}
           O == CASE d.type = "NULL" -> {Failed(d)}
                  [] d.type = "STRING" -> After(cplus_data_set_value(d, A), LAMBDA q : q.ret)
                  [] d.type = "BYTE_ARRAY" -> {[q EXCEPT !.kept = FALSE] : q \in F}
                  [] OTHER -> C
<1>1. r \in Spin(d, ScalarTypes, O)
  BY <1>0 DEF cplus_data_set_as_string
<1> HIDE DEF C, F, O
<1>2. r \in O /\ u = d
  BY <1>0, <1>1, SpinReads, FailedKept DEF Sound
<1>a. A.n \in Nat /\ Ended(A.text) /\ A.text = x /\ B.n \in Nat /\ Ended(B.text)
  BY DEF Argument
<1> HIDE DEF A, B
<1>3. CASE d.type = "NULL"
  <2>1. r = Failed(d)
    BY <1>2, <1>3 DEF O
  <2> QED
    BY <2>1, FailedKept
<1>4. CASE d.type = "STRING"
  <2>1. PICK q \in cplus_data_set_value(d, A) :
          r = IF q.ret \in Stops THEN q ELSE [q EXCEPT !.ret = q.ret, !.d.valid = TRUE]
    BY <1>2, <1>4 DEF O, After
  <2>2. GoesOn(r, q)
    BY <2>1 DEF GoesOn
  <2>3. q.kept
    <3>1. PICK T, e : T = Slow \cup BufferTypes /\ e = Taken(d, T)
      OBVIOUS
    <3>2. q \in Spin(d, T, SetString(e, A.n, A.text))
      BY <1>4, <3>1 DEF cplus_data_set_value
    <3>3. q = Stop("hang", d) \/ q \in SetString(e, A.n, A.text)
      BY <3>2, SpinReads DEF Sound
    <3>4. CASE q = Stop("hang", d)
      <4>1. q.ret \in Stops
        BY <3>4, SimpleOutcomes DEF Stops
      <4> QED
        BY <2>1, <4>1
    <3>5. CASE q \in SetString(e, A.n, A.text)
      <4>1. Sound(e, m) /\ e.type = "STRING"
        BY <1>4, <3>1, TakenFacts DEF Sound
      <4>2. PICK k, y : k = A.n /\ y = A.text /\ k \in Nat /\ Ended(y)
        BY <1>a
      <4>3. Sets(q, m)
        BY <3>5, <4>1, <4>2, SetStringSets
      <4> QED
        BY <2>1, <4>3 DEF Sets, Ends, IsOut
    <3> QED
      BY <3>3, <3>4, <3>5
  <2>4. IsOut(q) /\ IsObj(q.d) /\ q.d.type = "STRING" /\ q.d.alloc # Null /\ q.d.text = x
    BY <1>4, <1>a, <2>3, SetValueText
  <2>5. r.d.type = q.d.type /\ r.d.text = q.d.text /\ r.d.alloc = q.d.alloc
    BY <2>2, <2>4, AfterKeeps
  <2>6. PICK f : f = r.d
    OBVIOUS
  <2>7. Keeps(f, w)
    BY <2>4, <2>5, <2>6, TextKeeps
  <2> QED
    BY <2>6, <2>7
<1>5. CASE d.type = "BYTE_ARRAY"
  <2>1. PICK p \in F : r = [p EXCEPT !.kept = FALSE]
    BY <1>2, <1>5 DEF O
  <2>2. PICK q \in cplus_data_set_value(d, B) :
          p = IF q.ret \in Stops THEN q ELSE [q EXCEPT !.ret = "FAIL", !.d.valid = TRUE]
    BY DEF F, After
  <2>3. Ends(q, m)
    <3>1. Usable(d)
      BY <1>5 DEF Usable
    <3> QED
      BY <1>a, <3>1, SetValueSets DEF Sets
  <2>4. Ends(p, m)
    BY <2>2, <2>3, AfterEnds, StopFacts
  <2>5. ~r.kept
    BY <2>1, <2>4 DEF Ends, IsOut
  <2> QED
    BY <2>5
<1>6. CASE d.type \notin {"NULL", "STRING", "BYTE_ARRAY"}
  <2>1. r \in C /\ d.type \in ScalarTypes
    BY <1>2, <1>6 DEF O, Sound, IsObj, DataTypes, BufferTypes
  <2>2. PICK e : e = [d EXCEPT !.valid = TRUE]
    OBVIOUS
  <2>3. r # Failed(e)
    BY FailedKept
  <2>4. PICK n2 \in Parsed(d.type, x) : r = [Stored(d, n2) EXCEPT !.ret = "FAIL"]
    BY <1>2, <2>1, <2>2, <2>3 DEF C
  <2>5. PICK f : f = [d EXCEPT !.num = n2, !.valid = TRUE]
    OBVIOUS
  <2>6. r.d = f
    BY <2>4, <2>5 DEF Stored, Outcome
  <2>7. Shows(x, w.h) /\ w.as = "STRING" /\ w.h \in Int
    BY ShownFacts
  <2>8. Holds(d.type, w.h) /\ d.type \notin {"BOOL", "POINTER"} => n2 \in Int /\ Quarters(d.type, n2) = w.h
    BY <2>1, <2>7, ParsedExact
  <2>9. Holds(d.type, w.h) /\ (w.as = "STRING" => d.type \notin {"BOOL", "POINTER"})
           => n2 \in Int /\ Quarters(d.type, n2) = w.h
    BY <2>7, <2>8
  <2>10. Keeps(f, w)
    BY <2>1, <2>5, <2>7, <2>9, StoredKeeps
  <2> QED
    BY <2>6, <2>10
<1> QED
  BY <1>3, <1>4, <1>5, <1>6

\* What callers pass to cplus_data_set_value.
LEMMA ArgumentKinds ==
  ASSUME NEW t \in DataTypes, NEW arg \in Arguments(t)
  PROVE  /\ t \in ScalarTypes => arg.num \in Samples(t)
         /\ arg.text.n \in Int /\ (arg.text.form = "fix" => SixDecimals(arg.text.n) = arg.text.n)
         /\ t # "STRING" => Shown(arg.text) = Nothing
<1>0. NoText.n = 0 /\ NoText.form = "none" /\ Shown(NoText) = Nothing
  <2>1. NoText.n = 0 /\ NoText.form = "none"
    BY DEF NoText, Text
  <2> QED
    BY <2>1 DEF Shown
<1>1. CASE t = "STRING"
  <2>1. \/ \E x \in Texts : arg = Argument(0, TextLen(x), x, <<>>)
        \/ arg = Argument(0, 3, NoText, <<>>)
    BY <1>1 DEF Arguments
  <2>2. arg.text \in Texts \/ arg.text = NoText
    BY <2>1 DEF Argument
  <2> QED
    BY <1>0, <1>1, <2>2, TypeFacts, DataAssumption
<1>2. CASE t = "BYTE_ARRAY"
  <2>1. \E c \in Arrays : arg = Argument(0, Len(c), NoText, c)
    BY <1>2 DEF Arguments
  <2>2. arg.text = NoText
    BY <2>1 DEF Argument
  <2> QED
    BY <1>0, <1>2, <2>2, TypeFacts
<1>3. CASE t = "NULL"
  <2>1. arg = Argument(0, 0, NoText, <<>>)
    BY <1>3 DEF Arguments
  <2>2. arg.text = NoText
    BY <2>1 DEF Argument
  <2> QED
    BY <1>0, <1>3, <2>2, TypeFacts
<1>4. CASE t \notin {"NULL", "STRING", "BYTE_ARRAY"}
  <2>1. PICK v \in Samples(t) : arg = Argument(v, 0, NoText, <<>>)
    BY <1>4 DEF Arguments
  <2>2. arg.text = NoText /\ arg.num = v
    BY <2>1 DEF Argument
  <2> QED
    BY <1>0, <1>4, <2>2
<1> QED
  BY <1>1, <1>2, <1>3, <1>4

\* The number that cplus_data_set_value gives an object of type t.
Gives(t, arg, w) ==
  \/ t \in ScalarTypes /\ w.as = t /\ w.h = Quarters(t, arg.num)
  \/ t \notin ScalarTypes /\ w = Shown(arg.text) /\ w # Nothing

LEMMA SetValueKeeps ==
  ASSUME NEW d, NEW m, Sound(d, m), NEW arg \in Arguments(d.type), NEW r \in cplus_data_set_value(d, arg),
         r.kept, NEW w, Gives(d.type, arg, w)
  PROVE  Keeps(r.d, w)
<1>0. d.type \in DataTypes
  BY DEF Sound, IsObj
<1>1. /\ d.type \in ScalarTypes => arg.num \in Samples(d.type)
      /\ arg.text.n \in Int /\ (arg.text.form = "fix" => SixDecimals(arg.text.n) = arg.text.n)
      /\ d.type # "STRING" => Shown(arg.text) = Nothing
  BY <1>0, ArgumentKinds
<1>a. arg.n \in Nat /\ Ended(arg.text)
  BY <1>0, ArgumentFacts
<1>4. CASE d.type = "STRING"
  <2>1. r.d.type = "STRING" /\ r.d.alloc # Null /\ r.d.text = arg.text
    BY <1>4, <1>a, SetValueText
  <2>2. w = Shown(arg.text) /\ w # Nothing
    BY <1>4, TypeFacts DEF Gives
  <2>3. PICK x, f : x = arg.text /\ f = r.d
    OBVIOUS
  <2>4. Keeps(f, w)
    BY <1>1, <2>1, <2>2, <2>3, TextKeeps
  <2> QED
    BY <2>3, <2>4
<1>5. CASE d.type \in {"NULL", "BYTE_ARRAY"}
  BY <1>1, <1>5, TypeFacts DEF Gives
<1>6. CASE d.type \notin {"NULL", "STRING", "BYTE_ARRAY"}
  <2>1. r = Stored(d, arg.num)
    <3>1. PICK T, u : T = Slow \cup BufferTypes /\ u = Released(Taken(d, T), T)
      OBVIOUS
    <3>2. r \in Spin(d, T, {Stored(u, arg.num)})
      BY <1>6, <3>1 DEF cplus_data_set_value
    <3>3. r \in {Stored(u, arg.num)} /\ u = d
      <4>1. PICK O : O = {Stored(u, arg.num)} /\ r \in Spin(d, T, O)
        BY <3>2
      <4>2. r \in O /\ u = d
        BY <3>1, <4>1, SpinReads, FailedKept DEF Sound
      <4> QED
        BY <4>1, <4>2
    <3> QED
      BY <3>3
  <2>2. d.type \in ScalarTypes
    BY <1>0, <1>6 DEF DataTypes, BufferTypes
  <2>3. PICK n : n \in Int /\ n = arg.num /\ w.h = Quarters(d.type, n)
    BY <1>1, <2>2, SampleInt DEF Gives
  <2>4. PICK e : e = [d EXCEPT !.num = n, !.valid = TRUE]
    OBVIOUS
  <2>5. r.d = e
    BY <2>1, <2>3, <2>4 DEF Stored, Outcome
  <2>6. w.h \in Int
    BY <2>3 DEF Quarters
  <2>7. Keeps(e, w)
    BY <2>2, <2>3, <2>4, <2>6, StoredKeeps
  <2> QED
    BY <2>5, <2>7
<1> QED
  BY <1>4, <1>5, <1>6

\* Setting a key touches nothing else.
LEMMA SetKeyKeeps ==
  ASSUME NEW d, NEW m, Sound(d, m), NEW n, NEW r \in cplus_data_set_key(d, n)
  PROVE  /\ r.d.type = d.type /\ r.d.num = d.num /\ r.d.text = d.text /\ r.d.cells = d.cells
         /\ r.d.len = d.len /\ r.d.alloc = d.alloc
<1>1. \/ r = Stop("hang", d) \/ \E k : r = Got([d EXCEPT !.key = k], 0)
      \/ \E k, j : r = Got([d EXCEPT !.key_len = j, !.key = k], 0)
                   \/ r = Failed([d EXCEPT !.key_len = j, !.key = k])
  <2>0. PICK u : u = Released(Taken(d, DataTypes), DataTypes)
    OBVIOUS
  <2> DEFINE O == IF n + 1 <= d.key_len
                  THEN {Got([u EXCEPT !.key = IF @ = Null THEN Null ELSE n], 0)}
                  ELSE {IF a = Null
                        THEN Failed([u EXCEPT !.key_len = n + 1, !.key = Null])
                        ELSE Got([u EXCEPT !.key_len = n + 1, !.key = n], 0)
                        : a \in Allocate(n + 1)}
  <2>1. r \in Spin(d, DataTypes, O)
    BY <2>0 DEF cplus_data_set_key
  <2> HIDE DEF O
  <2>2. r = Stop("hang", d) \/ (r \in O /\ u = d)
    BY <2>0, <2>1, SpinReads DEF Sound
  <2> QED
    BY <2>2 DEF O
<1>2. PICK e : /\ r = Stop("hang", e) \/ r = Got(e, 0) \/ r = Failed(e)
               /\ \/ e = d \/ \E k : e = [d EXCEPT !.key = k]
                  \/ \E k, j : e = [d EXCEPT !.key_len = j, !.key = k]
  BY <1>1
<1>3. r.d = e
  <2>1. r = Stop("hang", e) \/ r = Got(e, 0) \/ r = Failed(e)
    BY <1>2
  <2> QED
    BY ONLY <2>1, SimpleOutcomes
<1>4. /\ e.type = d.type /\ e.num = d.num /\ e.text = d.text /\ e.cells = d.cells
      /\ e.len = d.len /\ e.alloc = d.alloc
  BY <1>2 DEF Sound, IsObj
<1> QED
  BY <1>3, <1>4

LEMMA InitializeKeeps ==
  ASSUME NEW d, d.type \in DataTypes, NEW arg \in Arguments(d.type), NEW key,
         NEW r \in data_initialize_object(d, arg, key), r.kept, NEW w, Gives(d.type, arg, w)
  PROVE  Keeps(r.d, w)
<1> DEFINE Keyed(q) == IF q.ret = "SUCCESS" /\ key > 0
                       THEN {[q EXCEPT !.ret = k.ret, !.d = k.d] : k \in cplus_data_set_key(q.d, key)}
                       ELSE {q}
<1>1. \/ r = Failed(Absent(d.type))
      \/ \E q \in cplus_data_set_value(Fresh(d.type), arg) :
           \E k \in Keyed(q) : r = IF k.ret = "FAIL" THEN Failed(Absent(d.type)) ELSE k
  BY ONLY r \in data_initialize_object(d, arg, key) DEF data_initialize_object
<1>2. PICK q \in cplus_data_set_value(Fresh(d.type), arg) : r \in Keyed(q)
  BY <1>1, FailedKept
<1>3. PICK f : f = Fresh(d.type) /\ Sound(f, {}) /\ Usable(f) /\ f.type = d.type
  BY FreshSound
<1>4. Sets(q, {})
  <2>1. arg.n \in Nat /\ Ended(arg.text)
    BY ArgumentFacts
  <2> QED
    BY <1>2, <1>3, <2>1, SetValueSets
<1>5. ASSUME q.kept PROVE Keeps(q.d, w)
  BY <1>2, <1>3, <1>5, SetValueKeeps
<1>6. CASE r = q
  BY <1>5, <1>6
<1>7. CASE r # q
  <2>1. PICK k \in cplus_data_set_key(q.d, key) :
          q.ret = "SUCCESS" /\ r = [q EXCEPT !.ret = k.ret, !.d = k.d]
    BY <1>2, <1>7
  <2>2. Sound(q.d, {})
    BY <1>4, <2>1 DEF Sets
  <2>3. r.kept = q.kept /\ r.d = k.d
    BY <1>4, <2>1 DEF Sets, Ends, IsOut
  <2>4. /\ k.d.type = q.d.type /\ k.d.num = q.d.num /\ k.d.text = q.d.text /\ k.d.cells = q.d.cells
        /\ k.d.len = q.d.len /\ k.d.alloc = q.d.alloc
    BY <2>2, SetKeyKeeps
  <2>5. Keeps(q.d, w)
    BY <1>5, <2>3
  <2>6. Keeps(k.d, w)
    BY <2>4, <2>5, KeepsSame
  <2> QED
    BY <2>3, <2>6
<1> QED
  BY <1>6, <1>7

\* e is the destination of a copy that says it kept what the source s has, c the
\* bytes it copied.
CopyKept(e, s, c, r) ==
  /\ e.type = s.type /\ e.type \in BufferTypes /\ e.alloc # Null /\ s.alloc # Null
  /\ e.type = "BYTE_ARRAY" => e.len >= s.len /\ e.len \in Nat /\ c \in Fill(s.cells, e.len)
  /\ IsObj(e) /\ r.d = [e EXCEPT !.text = s.text, !.cells = c]

LEMMA CloneKept ==
  ASSUME NEW d, NEW s, NEW m, NEW ms, Sound(d, m), Sound(s, ms), NEW r \in cplus_data_clone_value(d, s),
         r.kept
  PROVE  \/ d.type = s.type /\ d.type \notin BufferTypes /\ r.d = [d EXCEPT !.num = s.num]
         \/ \E e, c : CopyKept(e, s, c, r)
<1> DEFINE grows == IF d.type = "STRING" THEN s.len > d.len ELSE s.size > d.size
           space == IF d.type = "STRING" THEN s.len ELSE s.size
           bytes(e) == IF d.type = "STRING" THEN 0 ELSE e.len
           First(e) == {Got([e EXCEPT !.cells = c], 0) : c \in Fill(e.cells, bytes(e))}
           Last(e) == {Outcome("SUCCESS", [e EXCEPT !.text = s.text, !.cells = c], 0,
                                d.type = "STRING" \/ e.len >= s.len)
                        : c \in Fill(s.cells, bytes(e))}
           Copied(e) ==
             CASE s.alloc = Null \/ e.len = 0 -> First(e)
               [] s.alloc # Null /\ e.len > s.alloc -> {Stop("overread", e)}
               [] OTHER -> Last(e)
<1>0. /\ d.len \in Nat /\ d.size \in Nat /\ d.alloc \in Nat \cup {Null} /\ IsObj(d)
      /\ s.len \in Nat /\ s.size \in Nat /\ s.alloc \in Nat \cup {Null}
  BY DEF Sound, IsObj
<1>1. CASE d.type # s.type
  <2>1. r = Failed(d)
    BY <1>1 DEF cplus_data_clone_value
  <2> QED
    BY <2>1, FailedKept
<1>2. CASE d.type = s.type /\ d.type \notin BufferTypes
  <2>1. r = Outcome("SUCCESS", [d EXCEPT !.num = s.num], 0, TRUE)
    BY <1>2 DEF cplus_data_clone_value
  <2>2. PICK e : e = [d EXCEPT !.num = s.num]
    OBVIOUS
  <2>3. r.d = e
    BY <2>1, <2>2 DEF Outcome
  <2> QED
    BY <1>2, <2>2, <2>3
<1>3. ASSUME NEW e, IsObj(e), e.type = d.type, e.alloc # Null, r \in Copied(e), d.type = s.type,
             d.type \in BufferTypes
      PROVE  \E c : CopyKept(e, s, c, r)
  <2>0. e.len \in Nat
    BY <1>3 DEF IsObj
  <2>1. r \in First(e) \/ r = Stop("overread", e) \/ (s.alloc # Null /\ r \in Last(e))
    <3> HIDE DEF First, Last
    <3>1. CASE s.alloc = Null
      <4>1. r \in First(e)
        BY <1>3, <3>1
      <4> QED
        BY <4>1
    <3>2. CASE s.alloc # Null
      BY <1>3, <3>2
    <3> QED
      BY <3>1, <3>2
  <2>2. ~(r \in First(e)) /\ r # Stop("overread", e)
    BY FailedKept
  <2>3. PICK c \in Fill(s.cells, bytes(e)) :
          /\ s.alloc # Null
          /\ r = Outcome("SUCCESS", [e EXCEPT !.text = s.text, !.cells = c], 0,
                         d.type = "STRING" \/ e.len >= s.len)
    BY <2>1, <2>2
  <2>4. PICK f : f = [e EXCEPT !.text = s.text, !.cells = c]
    OBVIOUS
  <2>5. r = Outcome("SUCCESS", f, 0, d.type = "STRING" \/ e.len >= s.len)
    BY <2>3, <2>4
  <2>6. r.d = f /\ (d.type = "STRING" \/ e.len >= s.len)
    BY <2>5 DEF Outcome
  <2>7. e.type = "BYTE_ARRAY" => e.len >= s.len /\ c \in Fill(s.cells, e.len)
    BY <1>3, <2>3, <2>6
  <2>8. CopyKept(e, s, c, r)
    BY <1>3, <2>0, <2>3, <2>4, <2>6, <2>7 DEF CopyKept
  <2> QED
    BY <2>8
<1>4. CASE d.type = s.type /\ d.type \in BufferTypes /\ ~grows
  <2>1. r \in IF d.alloc = Null THEN {Got(d, 0)} ELSE Copied(d)
    BY <1>4 DEF cplus_data_clone_value
  <2>2. r # Got(d, 0)
    BY FailedKept
  <2> HIDE DEF Copied
  <2>3. d.alloc # Null /\ r \in Copied(d)
    BY <2>1, <2>2
  <2> QED
    BY <1>0, <1>3, <1>4, <2>3
<1>5. CASE d.type = s.type /\ d.type \in BufferTypes /\ grows
  <2>1. PICK a \in IF d.alloc = Null THEN {Null} ELSE Allocate(space) :
          r \in IF a = Null
                THEN {Failed([d EXCEPT !.alloc = Null, !.cells = <<>>, !.text = NoText])}
                ELSE Copied([d EXCEPT !.alloc = a, !.len = s.len, !.size = s.size])
    BY <1>5 DEF cplus_data_clone_value
  <2> HIDE DEF Copied
  <2>2. PICK g : g = [d EXCEPT !.alloc = Null, !.cells = <<>>, !.text = NoText]
    OBVIOUS
  <2>3. r # Failed(g)
    BY FailedKept
  <2>4. a # Null
    BY <2>1, <2>2, <2>3
  <2>5. PICK e : e = [d EXCEPT !.alloc = a, !.len = s.len, !.size = s.size]
    OBVIOUS
  <2>6. r \in Copied(e)
    <3>1. r \in Copied([d EXCEPT !.alloc = a, !.len = s.len, !.size = s.size])
      BY <2>1, <2>4
    <3> QED
      BY <2>5, <3>1
  <2>7. a \in Nat
    <3>1. space \in Nat
      BY <1>0
    <3> HIDE DEF space
    <3> QED
      BY <2>1, <2>4, <3>1, AllocateFacts
  <2>8. IsObj(e) /\ e.type = d.type /\ e.alloc = a
    BY <1>0, <2>5, <2>7 DEF IsObj
  <2> QED
    BY <1>3, <1>5, <2>4, <2>6, <2>8
<1> QED
  BY <1>1, <1>2, <1>4, <1>5

LEMMA CloneKeeps ==
  ASSUME NEW d, NEW s, NEW m, NEW ms, Sound(d, m), Sound(s, ms), NEW r \in cplus_data_clone_value(d, s),
         r.kept, NEW w, Keeps(s, w)
  PROVE  Keeps(r.d, w)
<1>1. CASE d.type = s.type /\ d.type \notin BufferTypes /\ r.d = [d EXCEPT !.num = s.num]
  <2>1. r.d.type = s.type /\ r.d.num = s.num
    BY <1>1 DEF Sound, IsObj
  <2>2. s.type \in ScalarTypes
    BY <1>1 DEF Keeps, Sound, IsObj, DataTypes
  <2> QED
    BY <2>1, <2>2, TypeFacts DEF Keeps, KeepsScalar
<1>2. ASSUME NEW e, NEW c, CopyKept(e, s, c, r) PROVE Keeps(r.d, w)
  <2>1. PICK f : f = r.d
    OBVIOUS
  <2>2. f.type = s.type /\ f.alloc # Null /\ f.text = s.text /\ f.cells = c /\ f.len = e.len
    BY <1>2, <2>1 DEF CopyKept, IsObj
  <2>3. CASE s.type = "STRING"
    BY <2>1, <2>2, <2>3, TypeFacts DEF Keeps, KeepsText
  <2>4. CASE s.type = "BYTE_ARRAY"
    <3>1. /\ w.as \in {"BOOL", "FLOAT"} \cup IntTypes /\ Size[w.as] <= s.len /\ w.as \in ScalarTypes
          /\ w.h \in Int
      BY <2>4, KindFacts DEF Keeps, KeepsBytes, FloatTypes
    <3>2. PICK v \in Samples(w.as) : HasImage(s, w, v)
      BY <2>4 DEF Keeps, KeepsBytes
    <3>3. e.len \in Nat /\ s.len \in Nat /\ e.len >= s.len /\ c \in Fill(s.cells, e.len) /\ Len(s.cells) = s.len
      BY <1>2, <2>4 DEF CopyKept, Sound, IsObj, ArraySound
    <3>4. PICK b : c = [i \in 1..e.len |-> IF i <= Len(s.cells) THEN s.cells[i] ELSE b]
      BY <3>3 DEF Fill
    <3>5. \A i \in 1..s.len : c[i] = s.cells[i]
      BY <3>3, <3>4
    <3>6. Size[w.as] \in Nat
      BY <3>1, SizeFacts
    <3>7. \A i \in 1..Size[w.as] : f.cells[i] = Image(w.as, v)[i]
      BY <2>2, <3>1, <3>2, <3>3, <3>5, <3>6 DEF HasImage
    <3>8. HasImage(f, w, v)
      BY <3>2, <3>7 DEF HasImage
    <3>9. Size[w.as] <= f.len
      BY <2>2, <3>1, <3>3, <3>6
    <3>10. KeepsBytes(f, w)
      BY <2>2, <3>1, <3>2, <3>8, <3>9 DEF KeepsBytes
    <3> QED
      BY <2>1, <2>2, <2>4, <3>1, <3>10, TypeFacts DEF Keeps
  <2> QED
    BY <1>2, <2>2, <2>3, <2>4, TypeFacts DEF CopyKept
<1> QED
  BY <1>1, <1>2, CloneKept

----------------------------------------------------------------------------
(* Every object keeps the number that it was last given.                   *)

KeepInv ==
  /\ wrote = [o \in Objects |-> wrote[o]]
  /\ \A o \in Objects : wrote[o] # Nothing => Keeps(obj[o], wrote[o])

\* A call changes one object and what it was given.
LEMMA CallWrites ==
  ASSUME DataInv, KeepInv, NEW o \in Objects, NEW r, NEW w, w # Nothing => Keeps(r.d, w),
         obj' = [obj EXCEPT ![o] = r.d], wrote' = [wrote EXCEPT ![o] = w]
  PROVE  KeepInv'
<1>1. wrote' = [p \in Objects |-> wrote'[p]]
  BY DEF KeepInv
<1>2. ASSUME NEW p \in Objects PROVE wrote'[p] # Nothing => Keeps(obj'[p], wrote'[p])
  <2>1. CASE p = o
    <3>1. obj'[p] = r.d /\ wrote'[p] = w
      BY <2>1 DEF DataInv, KeepInv
    <3> QED
      BY <3>1
  <2>2. CASE p # o
    <3>1. obj'[p] = obj[p] /\ wrote'[p] = wrote[p]
      BY <2>2 DEF DataInv, KeepInv
    <3> QED
      BY <3>1 DEF KeepInv
  <2> QED
    BY <2>1, <2>2
<1>3. KeepInv' <=> /\ wrote' = [p \in Objects |-> wrote'[p]]
                   /\ \A p \in Objects : wrote'[p] # Nothing => Keeps(obj'[p], wrote'[p])
  BY DEF KeepInv
<1> QED
  BY <1>1, <1>2, <1>3

LEMMA KeepInit == Init => KeepInv
  BY DEF Init, KeepInv

\* What Given says an object of its type was given.
LEMMA GivenGives ==
  ASSUME NEW o, NEW arg, NEW r, NEW w, w = Given(o, arg, r), w # Nothing
  PROVE  r.kept /\ Gives(obj[o].type, arg, w)
<1>1. r.kept
  BY DEF Given
<1>2. CASE obj[o].type \in ScalarTypes
  <2>1. w = [as |-> obj[o].type, h |-> Quarters(obj[o].type, arg.num)]
    BY <1>1, <1>2 DEF Given
  <2> QED
    BY <1>1, <1>2, <2>1 DEF Gives
<1>3. CASE obj[o].type \notin ScalarTypes
  <2>1. w = Shown(arg.text)
    BY <1>1, <1>3 DEF Given
  <2> QED
    BY <1>1, <1>3, <2>1 DEF Gives
<1> QED
  BY <1>2, <1>3

LEMMA LeavesKeeps ==
  ASSUME NEW d, NEW m, Sound(d, m), NEW r, Leaves(r, d), NEW w, Keeps(d, w)
  PROVE  Keeps(r.d, w)
<1>1. PICK e : e = r.d
  OBVIOUS
<1>2. /\ e.type = d.type /\ e.num = d.num /\ e.text = d.text /\ e.cells = d.cells
      /\ e.len = d.len /\ e.alloc = d.alloc
  BY <1>1 DEF Leaves, Sound, IsObj
<1>3. Keeps(e, w)
  BY <1>2, KeepsSame
<1> QED
  BY <1>1, <1>3

LEMMA KeepNext == DataInv /\ KeepInv /\ [Next]_vars => KeepInv'
<1> SUFFICES ASSUME DataInv, KeepInv, [Next]_vars PROVE KeepInv'
  OBVIOUS
<1>0. \A o \in Objects : Sound(obj[o], marred[o]) /\ obj[o].type \in DataTypes /\ IsObj(obj[o])
  BY DEF DataInv, Sound, IsObj
<1>00. \A o \in Objects : wrote[o] # Nothing => Keeps(obj[o], wrote[o])
  BY DEF KeepInv
<1>1. ASSUME NEW o \in Objects, New(o) PROVE KeepInv'
  <2>1. CASE \E arg \in Arguments(obj[o].type), key \in KeyLengths(o) \cup {0} :
               \E r \in data_initialize_object(obj[o], arg, key) : Return(o, r, Given(o, arg, r))
    <3>1. PICK arg, key, r :
            /\ arg \in Arguments(obj[o].type) /\ r \in data_initialize_object(obj[o], arg, key)
            /\ Return(o, r, Given(o, arg, r))
      BY <2>1
    <3>2. PICK w : w = Given(o, arg, r)
      OBVIOUS
    <3>3. w # Nothing => Keeps(r.d, w)
      BY <1>0, <3>1, <3>2, GivenGives, InitializeKeeps
    <3> QED
      BY <3>1, <3>2, <3>3, CallWrites DEF Return
  <2>2. CASE Return(o, Got(Fresh(obj[o].type), 0), Nothing)
    <3>1. PICK r, w : r = Got(Fresh(obj[o].type), 0) /\ w = Nothing
      OBVIOUS
    <3> QED
      BY <2>2, <3>1, CallWrites DEF Return
  <2> QED
    BY <1>1, <2>1, <2>2 DEF New
<1>2. ASSUME NEW o \in Objects, Delete(o) PROVE KeepInv'
  <2>1. PICK r, w : w = Nothing /\ Return(o, r, w)
    BY <1>2 DEF Delete
  <2> QED
    BY <2>1, CallWrites DEF Return
<1>3. ASSUME NEW o \in Objects, SetValue(o) PROVE KeepInv'
  <2>1. PICK arg, r :
          /\ arg \in Arguments(obj[o].type)
          /\ r \in cplus_data_set_value(obj[o], arg)
          /\ Return(o, r, Given(o, arg, r))
    BY <1>3 DEF SetValue
  <2>2. PICK w : w = Given(o, arg, r)
    OBVIOUS
  <2>3. w # Nothing => Keeps(r.d, w)
    BY <1>0, <2>1, <2>2, GivenGives, SetValueKeeps
  <2> QED
    BY <2>1, <2>2, <2>3, CallWrites DEF Return
<1>4. ASSUME NEW o \in Objects, SetAsScalar(o) PROVE KeepInv'
  <2>1. PICK s, v, r :
          /\ s \in ScalarTypes /\ v \in Samples(s) /\ r \in set_as(s, obj[o], v)
          /\ Return(o, r, IF r.kept THEN [as |-> s, h |-> Quarters(s, v)] ELSE Nothing)
    BY <1>4 DEF SetAsScalar
  <2>2. PICK w : w = IF r.kept THEN [as |-> s, h |-> Quarters(s, v)] ELSE Nothing
    OBVIOUS
  <2>3. w # Nothing => r.kept /\ w.as = s /\ w.h = Quarters(s, v)
    BY <2>2
  <2>4. w # Nothing => Keeps(r.d, w)
    BY <1>0, <2>1, <2>3, SetAsScalarKeeps
  <2> QED
    BY <2>1, <2>2, <2>4, CallWrites DEF Return
<1>5. ASSUME NEW o \in Objects, SetAsText(o) PROVE KeepInv'
  <2>1. PICK x, n, r :
          /\ x \in Texts
          /\ n \in {TextLen(x), TextLen(x) + 1} /\ r \in cplus_data_set_as_string(obj[o], n, x)
          /\ Return(o, r, IF r.kept THEN Shown(x) ELSE Nothing)
    BY <1>5 DEF SetAsText
  <2>2. n \in Nat /\ Ended(x) /\ x.n \in Int /\ (x.form = "fix" => SixDecimals(x.n) = x.n)
    BY <2>1, DataAssumption DEF Ended
  <2>3. PICK w : w = IF r.kept THEN Shown(x) ELSE Nothing
    OBVIOUS
  <2>4. w # Nothing => r.kept /\ w = Shown(x)
    BY <2>3
  <2>5. w # Nothing => Keeps(r.d, w)
    BY <1>0, <2>1, <2>2, <2>4, SetAsStringKeeps
  <2> QED
    BY <2>1, <2>3, <2>5, CallWrites DEF Return
<1>6. ASSUME NEW o \in Objects, SetAsBytes(o) PROVE KeepInv'
  <2>1. PICK r : Return(o, r, IF r.d = obj[o] THEN wrote[o] ELSE Nothing)
    BY <1>6 DEF SetAsBytes
  <2>2. PICK w : w = IF r.d = obj[o] THEN wrote[o] ELSE Nothing
    OBVIOUS
  <2>3. w # Nothing => Keeps(r.d, w)
    BY <1>00, <2>2
  <2> QED
    BY <2>1, <2>2, <2>3, CallWrites DEF Return
<1>7. ASSUME NEW o \in Objects, NEW src \in Objects, Clone(o, src) PROVE KeepInv'
  <2>1. PICK r :
          /\ r \in cplus_data_clone_value(obj[o], obj[src])
          /\ Return(o, r, IF r.kept THEN wrote[src] ELSE IF r.d = obj[o] THEN wrote[o] ELSE Nothing)
    BY <1>7 DEF Clone
  <2>2. PICK w : w = IF r.kept THEN wrote[src] ELSE IF r.d = obj[o] THEN wrote[o] ELSE Nothing
    OBVIOUS
  <2>3. ASSUME w # Nothing, r.kept PROVE Keeps(r.d, w)
    <3>1. w = wrote[src] /\ Keeps(obj[src], w)
      BY <1>00, <2>2, <2>3
    <3> QED
      BY <1>0, <2>1, <2>3, <3>1, CloneKeeps
  <2>4. ASSUME w # Nothing, ~r.kept PROVE Keeps(r.d, w)
    BY <1>00, <2>2, <2>4
  <2>5. w # Nothing => Keeps(r.d, w)
    BY <2>3, <2>4
  <2> QED
    BY <2>1, <2>2, <2>5, CallWrites DEF Return
<1>8. ASSUME NEW o \in Objects, Get(o) PROVE KeepInv'
  <2>1. PICK r : Leaves(r, obj[o]) /\ Return(o, r, wrote[o])
    <3>1. CASE \E s \in Gettable : \E r \in get_as(s, obj[o]) : Return(o, r, wrote[o])
      <4>1. PICK s \in Gettable : \E r \in get_as(s, obj[o]) : Return(o, r, wrote[o])
        BY <3>1
      <4>2. PICK r \in get_as(s, obj[o]) : Return(o, r, wrote[o])
        BY <4>1
      <4>3. Leaves(r, obj[o])
        BY <1>0, GetAsReads DEF Reads
      <4> QED
        BY <4>2, <4>3
    <3>2. CASE \E c \in Caps : \E r \in cplus_data_get_value(obj[o], c) : Return(o, r, wrote[o])
      BY <1>0, <3>2, GetValueLeaves
    <3>3. CASE \E c \in Caps : \E r \in cplus_data_get_as_string(obj[o], c) : Return(o, r, wrote[o])
      BY <1>0, <3>3, GetAsStringLeaves
    <3>4. CASE \E c \in Caps : \E r \in cplus_data_get_as_byte_array(obj[o], c) : Return(o, r, wrote[o])
      BY <1>0, <3>4, GetAsByteArrayLeaves
    <3>5. CASE \E r \in cplus_data_get_data_size(obj[o]) : Return(o, r, wrote[o])
      BY <1>0, <3>5, GetDataSizeLeaves
    <3> QED
      BY <1>8, <3>1, <3>2, <3>3, <3>4, <3>5 DEF Get
  <2>2. PICK w : w = wrote[o]
    OBVIOUS
  <2>3. w # Nothing => Keeps(r.d, w)
    BY <1>0, <1>00, <2>1, <2>2, LeavesKeeps
  <2> QED
    BY <2>1, <2>2, <2>3, CallWrites DEF Return
<1>9. ASSUME NEW o \in Objects, SetKey(o) PROVE KeepInv'
  <2>1. PICK n, r : r \in cplus_data_set_key(obj[o], n) /\ Return(o, r, wrote[o])
    BY <1>9 DEF SetKey
  <2>2. PICK w : w = wrote[o]
    OBVIOUS
  <2>3. w # Nothing => Keeps(r.d, w)
    <3>1. PICK d : d = obj[o] /\ Sound(d, marred[o])
      BY <1>0
    <3>2. /\ r.d.type = d.type /\ r.d.num = d.num /\ r.d.text = d.text /\ r.d.cells = d.cells
          /\ r.d.len = d.len /\ r.d.alloc = d.alloc
      BY <2>1, <3>1, SetKeyKeeps
    <3>3. w # Nothing => Keeps(d, w)
      BY <1>00, <2>2, <3>1
    <3> QED
      BY <3>2, <3>3, KeepsSame
  <2> QED
    BY <2>1, <2>2, <2>3, CallWrites DEF Return
<1>10. ASSUME UNCHANGED vars PROVE KeepInv'
  BY <1>10 DEF vars, KeepInv
<1>11. Converted \subseteq Objects
  BY DataAssumption
<1> QED
  BY <1>1, <1>2, <1>3, <1>4, <1>5, <1>6, <1>7, <1>8, <1>9, <1>10, <1>11 DEF Next

\* ConvertExact: for every byte size, a number that was written to an object as one
\* type is read back exactly as every type that can show it; from a string, as its
\* six decimals.
THEOREM ConversionsExact == Spec => []ConvertExact
<1>1. DataInv /\ KeepInv => ConvertExact
  <2> SUFFICES ASSUME DataInv, KeepInv, NEW o \in Converted, wrote[o] # Nothing, obj[o].live, ~obj[o].lock,
                      NEW s \in Gettable, Carries(obj[o].type, wrote[o], s), NEW r \in get_as(s, obj[o])
               PROVE  r.ret = "SUCCESS" /\ Quarters(s, r.v) = Kept(obj[o].type, wrote[o])
    BY DEF ConvertExact
  <2>1. Sound(obj[o], marred[o]) /\ Keeps(obj[o], wrote[o])
    BY DataAssumption DEF DataInv, KeepInv
  <2>2. Exact(r, s, Kept(obj[o].type, wrote[o]))
    BY <2>1, ReadsExact
  <2> QED
    BY <2>2 DEF Exact
<1>2. DataInv /\ KeepInv /\ [Next]_vars => KeepInv'
  BY KeepNext
<1> QED
  BY <1>1, <1>2, DataSound, KeepInit, PTL DEF Spec

============================================================================
