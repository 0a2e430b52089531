-------------------------- MODULE Responses_proofs --------------------------
(***************************************************************************)
(* What normalize_response and _extract_legs make of bodies of any length  *)
(* over any fields and values.  The invariant says of every field what it  *)
(* holds so far: a value read under its own name if there was one, else    *)
(* one read under an alias, else nothing; and of every column of a table   *)
(* the first filled cell read.                                             *)
(***************************************************************************)
EXTENDS Responses, SequenceTheorems, TLAPS

\* The fields read so far that carry a value under one of these names.
Read(names) == {k \in Carrying(names) : k <= n}

Holds(f) ==
    /\ out[f] = Missing <=> Read(NamesOf(f)) = {}
    /\ Read({f}) # {} => \E k \in Read({f}) : out[f] = body.entries[k].value
    /\ Read({f}) = {} /\ Read(NamesOf(f)) # {} =>
         \E k \in Read(NamesOf(f)) : out[f] = body.entries[k].value

\* The filled columns of a name read so far, and the first of them.
ReadColumns(f) == {k \in FilledColumns(f) : k <= n}

HoldsFirst(f) ==
    IF ReadColumns(f) = {} THEN out[f] = Missing
    ELSE \E k \in ReadColumns(f) : /\ \A l \in ReadColumns(f) : k <= l
                                   /\ out[f] = body.entries[k].value

IInv ==
    /\ TypeOK
    /\ body.shape = "flat" => \A f \in Fields : Holds(f)
    /\ body.shape = "table" => \A f \in Fields : HoldsFirst(f)

-----------------------------------------------------------------------------
\* A body is a sequence of entries.
LEMMA EntriesAreSeq ==
    ASSUME NEW b \in Bodies
    PROVE  /\ b.entries \in Seq(Entry)
           /\ Len(b.entries) \in Nat
           /\ DOMAIN b.entries = 1 .. Len(b.entries)
           /\ b.shape \in {"flat", "table"}
<1>1. b.entries \in UNION {[1 .. k -> Entry] : k \in 0 .. MaxEntries} /\ b.shape \in Shapes
  BY DEF Bodies
<1>2. PICK k \in 0 .. MaxEntries : b.entries \in [1 .. k -> Entry]
  BY <1>1
<1>3. k \in Nat
  BY MaxEntriesAssumption
<1>4. b.entries \in Seq(Entry)
  BY <1>2, <1>3
<1> QED BY <1>1, <1>4, LenProperties, ShapesAssumption

\* The next field of a body: its name and what it may hold.
LEMMA NextEntry ==
    ASSUME TypeOK, n < Len(body.entries)
    PROVE  /\ n + 1 \in DOMAIN body.entries
           /\ n + 1 \in 0 .. Len(body.entries)
           /\ body.entries[n + 1].field \in Fields
           /\ body.entries[n + 1].value \in Values \cup {Blank, Null}
           /\ body.entries[n + 1].value # Missing
           /\ body.entries[n + 1].spelling \in Spellings
<1>1. body.entries \in Seq(Entry) /\ Len(body.entries) \in Nat
      /\ DOMAIN body.entries = 1 .. Len(body.entries)
  BY EntriesAreSeq DEF TypeOK
<1>2. n + 1 \in DOMAIN body.entries /\ n + 1 \in 0 .. Len(body.entries)
  BY <1>1 DEF TypeOK
<1>3. body.entries[n + 1] \in Entry
  BY <1>1, <1>2, ElementOfSeq
<1> QED BY <1>2, <1>3, ValuesAssumption DEF Entry, Missing, Blank, Null

\* No value of an entry that is kept reads as no value.
LEMMA KeptIsCell ==
    ASSUME NEW v \in Values \cup {Blank, Null}, v # Null
    PROVE  v \in Cells
BY DEF Cells

\* The two aliases of _ALIASES.
LEMMA AliasesShape ==
    /\ DOMAIN Aliases = {"XTL_PO_ID", "PMT_LAST4"}
    /\ Aliases["XTL_PO_ID"] = "XTL_ORDER_ID" /\ Aliases["PMT_LAST4"] = "PMT_L4"
BY DEF Aliases

-----------------------------------------------------------------------------
(* Every step                                                              *)

\* What one more field adds to what was read.
LEMMA OneMoreRead ==
    ASSUME TypeOK, n < Len(body.entries), n' = n + 1, body' = body, NEW names
    PROVE  Read(names)' = Read(names) \cup
             (IF /\ body.entries[n + 1].field \in names
                 /\ body.entries[n + 1].value # Null THEN {n + 1} ELSE {})
<1>1. n + 1 \in DOMAIN body.entries /\ n \in Nat
  BY NextEntry, EntriesAreSeq DEF TypeOK
<1>2. DOMAIN body.entries \subseteq Int
  BY EntriesAreSeq DEF TypeOK
<1>3. Carrying(names)' = Carrying(names)
  BY DEF Carrying
<1> QED BY <1>1, <1>2, <1>3 DEF Read, Carrying

\* put: what every field holds is still true after one more field.
LEMMA ReadFlatKeeps == IInv /\ ReadFlat => IInv'
<1> SUFFICES ASSUME IInv, ReadFlat PROVE IInv'
  OBVIOUS
<1> DEFINE e == body.entries[n + 1]
<1>1. /\ TypeOK /\ n < Len(body.entries) /\ n' = n + 1 /\ body' = body
      /\ body.shape = "flat"
      /\ out' = IF e.value = Null THEN out ELSE Put(out, e)
  BY DEF ReadFlat, IInv
<1>2. /\ e.field \in Fields /\ e.value \in Values \cup {Blank, Null} /\ e.value # Missing
      /\ n + 1 \in 0 .. Len(body.entries)
  BY <1>1, NextEntry
<1>3. \A names : Read(names)' = Read(names) \cup
          (IF e.field \in names /\ e.value # Null THEN {n + 1} ELSE {})
  BY <1>1, OneMoreRead
<1> HIDE DEF e
<1>4. out' \in [Fields -> Cells]
  BY <1>1, <1>2, KeptIsCell DEF TypeOK, Put
<1>5. TypeOK'
  BY <1>1, <1>2, <1>4 DEF TypeOK
<1>6. ASSUME NEW f \in Fields PROVE Holds(f)'
  <2>1. Holds(f)
    BY <1>1 DEF IInv
  <2>2. f \in NamesOf(f) /\ NamesOf(f)' = NamesOf(f)
    BY DEF NamesOf
  <2>3. CASE e.value = Null
    BY <1>1, <1>3, <2>1, <2>2, <2>3 DEF Holds
  <2>4. CASE e.value # Null /\ e.field = f
    <3>1. out'[f] = e.value
      BY <1>1, <2>4 DEF Put
    <3>2. n + 1 \in Read({f})' /\ n + 1 \in Read(NamesOf(f))'
      BY <1>3, <2>2, <2>4
    <3>3. body'.entries[n + 1].value = e.value
      BY <1>1 DEF e
    <3> QED BY <1>2, <2>2, <3>1, <3>2, <3>3 DEF Holds
  <2>5. CASE e.value # Null /\ e.field # f /\ e.field \in NamesOf(f)
    <3>1. e.field \in DOMAIN Aliases /\ f = Aliases[e.field]
      BY <2>5 DEF NamesOf
    <3>2. out'[f] = IF out[f] = Missing THEN e.value ELSE out[f]
      BY <1>1, <2>5, <3>1 DEF Put
    <3>3. Read({f})' = Read({f}) /\ n + 1 \in Read(NamesOf(f))'
          /\ Read(NamesOf(f)) \subseteq Read(NamesOf(f))'
      BY <1>3, <2>2, <2>5
    <3>4. body'.entries[n + 1].value = e.value /\ body' = body
      BY <1>1 DEF e
    <3>5. Read({f}) \subseteq Read(NamesOf(f))
      BY <2>2 DEF Read, Carrying
    <3> QED BY <1>2, <2>1, <2>2, <3>2, <3>3, <3>4, <3>5 DEF Holds
  <2>6. CASE e.value # Null /\ e.field \notin NamesOf(f)
    <3>1. out'[f] = out[f]
      BY <1>1, <2>2, <2>6 DEF Put, NamesOf
    <3>2. Read({f})' = Read({f}) /\ Read(NamesOf(f))' = Read(NamesOf(f))
      BY <1>3, <2>2, <2>6
    <3> QED BY <1>1, <2>1, <3>1, <3>2 DEF Holds
  <2> QED BY <2>3, <2>4, <2>5, <2>6
<1> QED BY <1>1, <1>5, <1>6 DEF IInv

\* leg.setdefault: the first filled cell of each column is still what is held
\* after one more cell.
LEMMA ReadColumnKeeps == IInv /\ ReadColumn => IInv'
<1> SUFFICES ASSUME IInv, ReadColumn PROVE IInv'
  OBVIOUS
<1> DEFINE e == body.entries[n + 1]
<1>1. /\ TypeOK /\ n < Len(body.entries) /\ n' = n + 1 /\ body' = body
      /\ body.shape = "table" /\ n \in Nat /\ DOMAIN body.entries \subseteq Nat
      /\ out' = IF e.value \in {Null, Blank} THEN out
                ELSE SetDefault(out, StoredName("table", e), e.value)
  BY EntriesAreSeq DEF ReadColumn, IInv, TypeOK
<1>2. /\ e.value \in Values \cup {Blank, Null} /\ n + 1 \in 0 .. Len(body.entries)
      /\ n + 1 \in DOMAIN body.entries /\ e.value # Missing /\ e.field \in Fields
  BY <1>1, NextEntry
<1>3. out' \in [Fields -> Cells]
  <2> HIDE DEF e
  <2> QED BY <1>1, <1>2, KeptIsCell DEF TypeOK, SetDefault
<1>4. ASSUME NEW f \in Fields PROVE HoldsFirst(f)'
  <2> DEFINE filled == e.field = f /\ e.spelling # "padded" /\ e.value \in Values
  <2>1. HoldsFirst(f) /\ out[f] \in Cells
    BY <1>1 DEF IInv, TypeOK
  <2>2. ReadColumns(f)' = ReadColumns(f) \cup (IF filled THEN {n + 1} ELSE {})
    BY <1>1, <1>2 DEF ReadColumns, FilledColumns
  <2>3. \A k \in ReadColumns(f) : /\ k \in Nat /\ k <= n /\ k \in DOMAIN body.entries
                                   /\ body.entries[k].value \in Values
    BY <1>1 DEF ReadColumns, FilledColumns
  <2>4. CASE ~filled
    <3>1. out'[f] = out[f]
      BY <1>1, <1>2, <2>4, FieldsAssumption DEF SetDefault, StoredName
    <3> QED BY <1>1, <2>1, <2>2, <2>4, <3>1 DEF HoldsFirst
  <2>5. CASE filled /\ ReadColumns(f) = {}
    <3>1. out[f] = Missing
      BY <2>1, <2>5 DEF HoldsFirst
    <3>2. out'[f] = e.value
      BY <1>1, <1>2, <2>5, <3>1, ValuesAssumption DEF SetDefault, StoredName
    <3>3. ReadColumns(f)' = {n + 1} /\ body'.entries[n + 1].value = e.value
      BY <1>1, <2>2, <2>5
    <3> QED BY <1>1, <3>2, <3>3 DEF HoldsFirst
  <2>6. CASE filled /\ ReadColumns(f) # {}
    <3>1. PICK k \in ReadColumns(f) : /\ \A l \in ReadColumns(f) : k <= l
                                      /\ out[f] = body.entries[k].value
      BY <2>1, <2>6 DEF HoldsFirst
    <3>2. out[f] # Missing /\ k <= n + 1
      BY <1>1, <2>3, <3>1, ValuesAssumption
    <3>3. out'[f] = out[f]
      BY <1>1, <3>2 DEF SetDefault
    <3>4. k \in ReadColumns(f)' /\ \A l \in ReadColumns(f)' : k <= l
      BY <2>2, <3>1, <3>2
    <3> QED BY <1>1, <3>1, <3>3, <3>4 DEF HoldsFirst
  <2> QED BY <2>4, <2>5, <2>6
<1> HIDE DEF e
<1> QED BY <1>1, <1>2, <1>3, <1>4 DEF IInv, TypeOK

\* Each field holds what was read of it so far.
LEMMA InductiveInvariant == Spec => []IInv
<1>1. Init => IInv
  <2> SUFFICES ASSUME Init PROVE IInv
    OBVIOUS
  <2>1. DOMAIN body.entries = 1 .. Len(body.entries) /\ Len(body.entries) \in Nat
    BY EntriesAreSeq DEF Init
  <2>2. /\ \A names : Read(names) = {}
        /\ \A f \in Fields : ReadColumns(f) = {}
    BY <2>1 DEF Init, Read, Carrying, ReadColumns, FilledColumns
  <2>3. TypeOK
    BY <2>1 DEF Init, TypeOK, Cells
  <2>4. \A f \in Fields : out[f] = Missing
    BY DEF Init
  <2> QED BY <2>2, <2>3, <2>4 DEF IInv, Holds, HoldsFirst
<1>2. IInv /\ UNCHANGED vars => IInv'
  BY DEF vars, IInv, TypeOK, Holds, Read, Carrying, NamesOf, HoldsFirst, ReadColumns,
     FilledColumns
<1> QED BY <1>1, <1>2, ReadFlatKeeps, ReadColumnKeeps, PTL DEF Spec, Next

-----------------------------------------------------------------------------
(* What a finished map says                                                *)

\* Nothing but well-formed cells is kept of a response of any length.
THEOREM ResponsesTypeCorrect == Spec => []TypeOK
<1>1. IInv => TypeOK
  BY DEF IInv
<1> QED BY <1>1, InductiveInvariant, PTL

\* At the end of the body all values under some names were read.
LEMMA AllRead == ASSUME TypeOK, Done, NEW names PROVE Read(names) = Carrying(names)
BY EntriesAreSeq DEF TypeOK, Done, Read, Carrying

\* A field the mapper looks up by its canonical name is found when the gateway
\* wrote it under the alias (_ALIASES), in bodies that repeat fields too.
THEOREM AliasesAreFound == Spec => []AliasIsFound
<1>1. IInv => AliasIsFound
  <2> SUFFICES ASSUME IInv, Done, body.shape = "flat", NEW f \in Canonical \cap Fields,
                      Carrying(NamesOf(f)) # {}, Carrying({f}) = {}
               PROVE  out[f] \in {body.entries[k].value : k \in Carrying(NamesOf(f))}
    BY DEF AliasIsFound
  <2>1. Read({f}) = Carrying({f}) /\ Read(NamesOf(f)) = Carrying(NamesOf(f)) /\ Holds(f)
    BY AllRead DEF IInv
  <2> QED BY <2>1 DEF Holds
<1> QED BY <1>1, InductiveInvariant, PTL

\* A flat answer that repeats no field reads as its fields say, in whatever order,
\* case and padding the gateway writes them, unless an empty canonical field hides
\* what its alias says.
THEOREM AnyOrderReadsTheSame == Spec => []OrderDoesNotMatter
<1>1. IInv => OrderDoesNotMatter
  <2> SUFFICES ASSUME IInv, Done, body.shape = "flat", Unrepeated, NEW f \in Fields,
                      ~HiddenByBlank(f)
               PROVE  out[f] = Says(f)
    BY DEF OrderDoesNotMatter
  <2>1. Read({f}) = Carrying({f}) /\ Read(NamesOf(f)) = Carrying(NamesOf(f)) /\ Holds(f)
    BY AllRead DEF IInv
  <2>2. \A k, l \in Carrying({f}) : k = l
    BY DEF Carrying, Unrepeated
  <2>3. ASSUME Carrying({f}) = {}, NEW k \in Carrying(NamesOf(f)), NEW l \in Carrying(NamesOf(f))
        PROVE  k = l
    <3>1. body.entries[k].field = body.entries[l].field
      BY <2>3, AliasesShape DEF Carrying, NamesOf
    <3> QED BY <3>1 DEF Carrying, Unrepeated
  <2>4. Carrying({f}) \subseteq Carrying(NamesOf(f))
    BY DEF Carrying, NamesOf
  <2>5. CASE Carrying({f}) # {}
    <3>1. PICK k \in Carrying({f}) : out[f] = body.entries[k].value
      BY <2>1, <2>5 DEF Holds
    <3>2. CASE body.entries[k].value # Blank
      <4>1. Filled({f}) = {k}
        BY <2>2, <3>2 DEF Filled
      <4> QED BY <3>1, <4>1 DEF Says
    <3>3. CASE body.entries[k].value = Blank
      <4>1. Filled({f}) = {}
        BY <2>2, <3>3 DEF Filled
      <4>2. Filled(NamesOf(f)) = {}
        BY <2>5, <4>1 DEF HiddenByBlank
      <4> QED BY <2>4, <2>5, <3>1, <3>3, <4>1, <4>2 DEF Says
    <3> QED BY <3>2, <3>3
  <2>6. CASE Carrying({f}) = {} /\ Carrying(NamesOf(f)) # {}
    <3>1. PICK k \in Carrying(NamesOf(f)) : out[f] = body.entries[k].value
      BY <2>1, <2>6 DEF Holds
    <3>2. Filled({f}) = {}
      BY <2>6 DEF Filled
    <3>3. CASE body.entries[k].value # Blank
      <4>1. Filled(NamesOf(f)) = {k}
        BY <2>3, <2>6, <3>3 DEF Filled
      <4> QED BY <3>1, <3>2, <4>1 DEF Says
    <3>4. CASE body.entries[k].value = Blank
      <4>1. Filled(NamesOf(f)) = {}
        BY <2>3, <2>6, <3>4 DEF Filled
      <4> QED BY <2>6, <3>1, <3>2, <3>4, <4>1 DEF Says
    <3> QED BY <3>3, <3>4
  <2>7. CASE Carrying(NamesOf(f)) = {}
    <3>1. Filled({f}) = {} /\ Filled(NamesOf(f)) = {} /\ out[f] = Missing
      BY <2>1, <2>4, <2>7 DEF Filled, Holds
    <3> QED BY <2>7, <3>1 DEF Says
  <2> QED BY <2>5, <2>6, <2>7
<1> QED BY <1>1, InductiveInvariant, PTL

\* In a table of any width, with columns repeated in any way, a leg holds the first
\* filled cell of each column.
THEOREM FirstFilledCellIsRead == Spec => []FirstFilledColumnIsRead
<1>1. IInv => FirstFilledColumnIsRead
  <2> SUFFICES ASSUME IInv, Done, body.shape = "table"
               PROVE  \A f \in Fields :
                        IF FilledColumns(f) = {} THEN out[f] = Missing
                        ELSE \E k \in FilledColumns(f) :
                               /\ \A l \in FilledColumns(f) : k <= l
                               /\ out[f] = body.entries[k].value
    BY DEF FirstFilledColumnIsRead
  <2>1. Len(body.entries) \in Nat /\ DOMAIN body.entries = 1 .. Len(body.entries)
    BY EntriesAreSeq DEF IInv, TypeOK
  <2>2. \A f : ReadColumns(f) = FilledColumns(f)
    BY <2>1 DEF Done, ReadColumns, FilledColumns
  <2> QED BY <2>2 DEF IInv, HoldsFirst
<1> QED BY <1>1, InductiveInvariant, PTL
=============================================================================
