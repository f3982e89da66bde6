------------------------------ MODULE Payload ------------------------------
(***************************************************************************)
(* serde and serde_json as the durable types use them.  A type is a record *)
(* of what derive makes of it: its values, what each release writes for a  *)
(* value, and what is read from a payload, <<value>> or <<>> for an error. *)
(* Types are built from types, as the declarations of the code are.        *)
(*                                                                         *)
(* An object is a function from member names, and members whose name the   *)
(* reading type does not have are ignored, as no type that is described    *)
(* here has deny_unknown_fields.                                           *)
(***************************************************************************)
EXTENDS Integers, Sequences

CONSTANTS
    Data,           \* anything a value or a payload may be
    MaxMillis,      \* u64::MAX
    Durations       \* Bound: the durations tried, in microseconds

ASSUME MaxMillisAssumption == MaxMillis \in Nat

\* The fields that releases have added.  A release is known by those it does not have
\* yet; this one has them all.
LaterFields == {
    "step_cap", "retry_policy", "context_policy", "model", "tools", "notes_more", "outputs_more",
    "in_flight", "cumulative_triggers_observed", "cumulative_human_ops_observed",
    "cumulative_mandate_patches_observed", "parked", "is_never", "tick", "next_wake"}
Release == SUBSET LaterFields
Current == {}

\* Payloads other than objects, arrays and atoms.
Null == [null |-> 0]

IsAtom(j) == "atom" \in DOMAIN j
IsArray(j) == "items" \in DOMAIN j
IsObject(j) == "members" \in DOMAIN j

-----------------------------------------------------------------------------
(* Types.                                                                  *)
(*                                                                         *)
(*   values   what a variable of the type may hold                         *)
(*   kept     what is left of each once it has been written and read       *)
(*   missing  what a missing field of the type is read as                  *)
(*   tries    the values that are tried                                    *)

\* Numbers, texts, Booleans and names of unit variants.
Atom(S, some) == [
    values |-> {v \in Data : v \in S}, kept |-> [v \in Data |-> v], missing |-> <<>>, tries |-> some,
    write |-> [r \in Release |-> [v \in Data |-> [atom |-> v]]],
    read |-> [j \in Data |-> IF IsAtom(j) THEN <<j.atom>> ELSE <<>>]]

\* serde_json::Value.
Json == [
    values |-> Data, kept |-> [v \in Data |-> v], missing |-> <<>>,
    tries |-> {Null, [atom |-> "json"]},
    write |-> [r \in Release |-> [v \in Data |-> v]],
    read |-> [j \in Data |-> <<j>>]]

\* duration_ms: "Sub-millisecond precision is truncated on the way out", and what does
\* not fit is saturated.
ToMillis(d) == IF d \div 1000 <= MaxMillis THEN d \div 1000 ELSE MaxMillis

\* Fault: a duration is read as it was written, in another unit.
FromMicros(n) == n

FromMillis(n) == n * 1000

\* What is left of a duration.
Truncated(d) == IF d \div 1000 <= MaxMillis THEN d - (d % 1000) ELSE MaxMillis * 1000

Millis == [
    values |-> Nat, kept |-> [d \in Data |-> Truncated(d)], missing |-> <<>>,
    tries |-> Durations,
    write |-> [r \in Release |-> [d \in Data |-> [atom |-> ToMillis(d)]]],
    read |-> [j \in Data |-> IF IsAtom(j) THEN <<FromMillis(j.atom)>> ELSE <<>>]]

\* Option: none is <<>>.
Opt(t) == [
    values |-> {v \in Data : v \in Seq(t.values) /\ Len(v) <= 1},
    kept |-> [v \in Data |-> IF v = <<>> THEN <<>> ELSE <<t.kept[v[1]]>>],
    missing |-> << <<>> >>,
    tries |-> {<<>>} \cup {<<v>> : v \in t.tries},
    write |-> [r \in Release |-> [v \in Data |-> IF v = <<>> THEN Null ELSE t.write[r][v[1]]]],
    read |-> [j \in Data |-> IF j = Null THEN << <<>> >>
                             ELSE IF t.read[j] = <<>> THEN <<>> ELSE <<t.read[j]>>]]

Vec(t) == [
    values |-> {v \in Data : v \in Seq(t.values)},
    kept |-> [v \in Data |-> [i \in DOMAIN v |-> t.kept[v[i]]]],
    missing |-> <<>>,
    tries |-> {<<>>} \cup {<<v>> : v \in t.tries},
    write |-> [r \in Release |-> [v \in Data |->
                  [items |-> [i \in DOMAIN v |-> t.write[r][v[i]]]]]],
    read |-> [j \in Data |->
                 IF IsArray(j) /\ \A i \in DOMAIN j.items : t.read[j.items[i]] # <<>>
                 THEN <<[i \in DOMAIN j.items |-> t.read[j.items[i]][1]]>>
                 ELSE <<>>]]

-----------------------------------------------------------------------------
(* Fields: one of a struct; one with #[serde(default)]; one that is also   *)
(* skipped when it is none; one with #[serde(with)], which is an error     *)
(* when it is missing even if it is an Option; and one that a release that *)
(* may have written a payload did not have yet.                            *)

Field(t) == [type |-> t, absent |-> t.missing, sparse |-> FALSE, later |-> FALSE]
Default(t, v) == [type |-> t, absent |-> <<v>>, sparse |-> FALSE, later |-> FALSE]
Sparse(t) == [type |-> t, absent |-> << <<>> >>, sparse |-> TRUE, later |-> FALSE]
With(t) == [type |-> t, absent |-> <<>>, sparse |-> FALSE, later |-> FALSE]
Later(f) == [type |-> f.type, absent |-> f.absent, sparse |-> f.sparse, later |-> TRUE]

\* The values of the fields, and what is left of them.
Assigned(fields) ==
    {v \in Data : v \in [DOMAIN fields -> Data] /\ \A f \in DOMAIN fields : v[f] \in fields[f].type.values}
KeptOf(fields, v) == [f \in DOMAIN fields |-> fields[f].type.kept[v[f]]]

\* The members that are written for a value.
Written(r, fields, v) ==
    {f \in DOMAIN fields : /\ ~(fields[f].sparse /\ v[f] = <<>>)
                           /\ ~(fields[f].later /\ f \in r)}
Members(r, fields, v) == [f \in Written(r, fields, v) |-> fields[f].type.write[r][v[f]]]

\* A member as it is read, or what stands for it.
MemberRead(fields, m, f) ==
    IF f \in DOMAIN m THEN fields[f].type.read[m[f]] ELSE fields[f].absent

\* Every field, or an error.
MembersRead(fields, m) ==
    IF \A f \in DOMAIN fields : MemberRead(fields, m, f) # <<>>
    THEN <<[f \in DOMAIN fields |-> MemberRead(fields, m, f)[1]]>>
    ELSE <<>>

\* Values to try: each field takes each of its values beside the first values of the others.
Varied(fields) ==
    LET base == [f \in DOMAIN fields |-> CHOOSE v \in fields[f].type.tries : TRUE]
    IN {base} \cup UNION {{[base EXCEPT ![f] = v] : v \in fields[f].type.tries} : f \in DOMAIN fields}

\* A struct that had members in older releases which it has no more.
StructOnceWith(fields, names) == [
    values |-> Assigned(fields), kept |-> [v \in Data |-> KeptOf(fields, v)],
    missing |-> <<>>, tries |-> Varied(fields),
    write |-> [r \in Release |-> [v \in Data |->
        LET m == Members(r, fields, v)
            gone == IF r = Current THEN {} ELSE names
        IN [members |-> [f \in DOMAIN m \cup gone |-> IF f \in DOMAIN m THEN m[f] ELSE Null]]]],
    read |-> [j \in Data |-> IF IsObject(j) THEN MembersRead(fields, j.members) ELSE <<>>]]

Struct(fields) == StructOnceWith(fields, {})

\* #[serde(tag)]: the name of the variant is a member beside its fields.
Tagged(tag, variants) == [
    values |-> {v \in Data : /\ v \in [variant : DOMAIN variants, fields : Data]
                            /\ v.fields \in Assigned(variants[v.variant])},
    kept |-> [v \in Data |-> [variant |-> v.variant, fields |-> KeptOf(variants[v.variant], v.fields)]],
    missing |-> <<>>,
    tries |-> UNION {{[variant |-> n, fields |-> v] : v \in Varied(variants[n])} : n \in DOMAIN variants},
    write |-> [r \in Release |-> [v \in Data |->
        LET m == Members(r, variants[v.variant], v.fields)
        IN [members |-> [f \in DOMAIN m \cup {tag} |-> IF f = tag THEN [atom |-> v.variant] ELSE m[f]]]]],
    read |-> [j \in Data |->
        IF IsObject(j) /\ tag \in DOMAIN j.members /\ j.members[tag].atom \in DOMAIN variants
        THEN LET variant == j.members[tag].atom
                 fields == MembersRead(variants[variant], j.members)
             IN IF fields = <<>> THEN <<>> ELSE <<[variant |-> variant, fields |-> fields[1]]>>
        ELSE <<>>]]

\* #[serde(rename_all)] on an enum without a tag: unit variants, and variants of one number.
Plain(units, numbered) == [
    values |-> {v \in Data : v \in [variant : units, number : {0}] \cup [variant : numbered, number : Nat]},
    kept |-> [v \in Data |-> v], missing |-> <<>>,
    tries |-> [variant : units, number : {0}] \cup [variant : numbered, number : {0, 1, 2}],
    write |-> [r \in Release |-> [v \in Data |->
        IF v.variant \in units THEN [atom |-> v.variant]
        ELSE [members |-> [n \in {v.variant} |-> [atom |-> v.number]]]]],
    read |-> [j \in Data |->
        IF IsAtom(j) THEN IF j.atom \in units THEN <<[variant |-> j.atom, number |-> 0]>> ELSE <<>>
        ELSE IF IsObject(j) /\ \E n \in numbered : DOMAIN j.members = {n}
        THEN LET n == CHOOSE n \in numbered : DOMAIN j.members = {n}
             IN <<[variant |-> n, number |-> j.members[n].atom]>>
        ELSE <<>>]]
=============================================================================
