----------------------------- MODULE Responses -----------------------------
(***************************************************************************)
(* Reading an answer of the gateway: normalize_response turns the body     *)
(* into a map from upper-cased field names to strings, one field after the *)
(* other in the order of the body, and a CCSTATUS table into one map per   *)
(* row (_extract_legs).  The mapper then looks fields up by one name each. *)
(*                                                                         *)
(* A body here is what one such map is made from: the flat fields (nested  *)
(* JSON objects flattened, or form-encoded pairs), or the columns of a     *)
(* table paired with one of its rows.                                      *)
(***************************************************************************)
EXTENDS Naturals, Sequences

CONSTANTS
    Fields,     \* field names, as the mapper spells them
    Values,     \* non-empty strings a field may hold
    Shapes,     \* what bodies are considered: subset of {"flat", "table"}
    MaxEntries  \* how many fields a body has at most

\* Field names that mean the same thing on the wire: alias and canonical name.
Aliases == [f \in {"XTL_PO_ID", "PMT_LAST4"} |->
              IF f = "XTL_PO_ID" THEN "XTL_ORDER_ID" ELSE "PMT_L4"]
Canonical == {Aliases[a] : a \in DOMAIN Aliases}

Blank == "blank"      \* the empty string
Null == "null"        \* JSON null
Missing == "missing"  \* no entry in the map

Unknown == "unknown"  \* the name of a padded column, which nobody looks up

ASSUME FieldsAssumption ==
    /\ \A a \in DOMAIN Aliases : a \in Fields => Aliases[a] \in Fields
    /\ Unknown \notin Fields
ASSUME ValuesAssumption == {Blank, Null, Missing} \cap Values = {}
ASSUME ShapesAssumption == Shapes \subseteq {"flat", "table"}
ASSUME MaxEntriesAssumption == MaxEntries \in Nat

VARIABLES
    body,  \* the fields of the answer, in order
    n,     \* how many of them were read
    out    \* the map built so far

vars == <<body, n, out>>

\* " po_id " and "Po_Id" are spellings of PO_ID: other than in case, or padded.
Spellings == {"exact", "case", "padded"}
Entry == [field : Fields, spelling : Spellings, value : Values \cup {Blank, Null}]

Bodies ==
    [shape : Shapes,
     entries : UNION {[1 .. k -> Entry] : k \in 0 .. MaxEntries}]

Init ==
    /\ body \in Bodies
    /\ n = 0
    /\ out = [f \in Fields |-> Missing]

-----------------------------------------------------------------------------
\* The name a key is stored under: str(key).upper().strip() for a flat field,
\* str(col).upper() for a column.
StoredName(shape, e) ==
    IF shape = "table" /\ e.spelling = "padded" THEN Unknown ELSE e.field

\* Mutants: an alias overwrites its canonical name; aliases are not known.
PutAliasOverwrites(map, e) ==
    [f \in Fields |->
        IF f = e.field \/ (e.field \in DOMAIN Aliases /\ f = Aliases[e.field])
        THEN e.value ELSE map[f]]

PutWithoutAlias(map, e) == [map EXCEPT ![e.field] = e.value]

\* put: the last value of a field stands; an alias also fills its canonical
\* name in when there is nothing under that name.
Put(map, e) ==
    [f \in Fields |->
        IF f = e.field THEN e.value
        ELSE IF e.field \in DOMAIN Aliases /\ f = Aliases[e.field] /\ map[f] = Missing
        THEN e.value
        ELSE map[f]]

\* Mutant: the last value of a column stands.
SetDefaultLastWins(map, name, value) ==
    [f \in Fields |-> IF f = name THEN value ELSE map[f]]

\* leg.setdefault: the first value of a column stands.
SetDefault(map, name, value) ==
    [f \in Fields |-> IF f = name /\ map[f] = Missing THEN value ELSE map[f]]

\* Mutant: JSON null is stored like any value.
ReadFlatStoresNull ==
    /\ body.shape = "flat"
    /\ n < Len(body.entries)
    /\ n' = n + 1
    /\ out' = Put(out, body.entries[n + 1])
    /\ UNCHANGED body

ReadFlat ==
    /\ body.shape = "flat"
    /\ n < Len(body.entries)
    /\ n' = n + 1
    /\ LET e == body.entries[n + 1] IN
       out' = IF e.value = Null THEN out ELSE Put(out, e)
    /\ UNCHANGED body

\* A cell without a value is passed over, so are the columns a short row lacks.
ReadColumn ==
    /\ body.shape = "table"
    /\ n < Len(body.entries)
    /\ n' = n + 1
    /\ LET e == body.entries[n + 1] IN
       out' = IF e.value \in {Null, Blank} THEN out
              ELSE SetDefault(out, StoredName("table", e), e.value)
    /\ UNCHANGED body

Next == ReadFlat \/ ReadColumn

Spec == Init /\ [][Next]_vars

-----------------------------------------------------------------------------
(* What the answer says, by the names its fields have                      *)

Done == n = Len(body.entries)

\* The entries of the body that carry a value under one of these names.
Carrying(names) ==
    {k \in DOMAIN body.entries : /\ body.entries[k].field \in names
                                 /\ body.entries[k].value # Null}

NamesOf(f) == {f} \cup {a \in DOMAIN Aliases : Aliases[a] = f}

Unrepeated ==
    \A k, l \in DOMAIN body.entries :
        body.entries[k].field = body.entries[l].field => k = l

\* Those of them that are not the empty string.
Filled(names) == {k \in Carrying(names) : body.entries[k].value # Blank}

\* What a body that repeats no field says of f, whatever the order of its
\* fields: what stands under f itself, else under its alias; the empty string
\* says nothing and is what is left when neither says anything.
Says(f) ==
    IF Filled({f}) # {}
    THEN body.entries[CHOOSE k \in Filled({f}) : TRUE].value
    ELSE IF Filled(NamesOf(f)) # {}
    THEN body.entries[CHOOSE k \in Filled(NamesOf(f)) : TRUE].value
    ELSE IF Carrying(NamesOf(f)) # {} THEN Blank
    ELSE Missing

\* The one case in which normalize_response loses what the answer says: an empty
\* string under f beside a filled alias (see README.md).
HiddenByBlank(f) ==
    Filled({f}) = {} /\ Carrying({f}) # {} /\ Filled(NamesOf(f)) # {}

\* The columns of a table whose header, in any case but unpadded, is f and that
\* hold something in this row.
FilledColumns(f) ==
    {k \in DOMAIN body.entries : /\ body.entries[k].field = f
                                 /\ body.entries[k].spelling # "padded"
                                 /\ body.entries[k].value \in Values}

Cells == Values \cup {Blank, Missing}

-----------------------------------------------------------------------------
(* Properties                                                              *)

\* What is kept of a response is well formed: a null never enters the mapping.
TypeOK ==
    /\ body \in Bodies
    /\ n \in 0 .. Len(body.entries)
    /\ out \in [Fields -> Cells]

\* A flat answer means the same in whatever order, case and padding its fields
\* come: each field is what the body says, the canonical name beating its alias,
\* but for a value that an empty canonical field hides.
OrderDoesNotMatter ==
    Done /\ body.shape = "flat" /\ Unrepeated =>
        \A f \in Fields : out[f] = Says(f) \/ HiddenByBlank(f)

\* An answer that gives an alias any value never leaves the canonical name the
\* mapper looks up empty-handed, unless it says something under that name too.
AliasIsFound ==
    Done /\ body.shape = "flat" =>
        \A f \in Canonical \cap Fields :
            Carrying(NamesOf(f)) # {} /\ Carrying({f}) = {} =>
                out[f] \in {body.entries[k].value : k \in Carrying(NamesOf(f))}

\* A leg of an order holds, under each column, the first value the row has for
\* it: a column that comes twice (TRANS_ID does) neither overwrites it nor is
\* lost when the first of the two cells is empty.
FirstFilledColumnIsRead ==
    Done /\ body.shape = "table" =>
        \A f \in Fields :
            IF FilledColumns(f) = {} THEN out[f] = Missing
            ELSE \E k \in FilledColumns(f) : /\ \A l \in FilledColumns(f) : k <= l
                                             /\ out[f] = body.entries[k].value
=============================================================================
