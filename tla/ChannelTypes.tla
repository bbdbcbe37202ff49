---------------------------- MODULE ChannelTypes ----------------------------
(***************************************************************************)
(* The declared type of a field: the token grammar `parse_type_token`      *)
(* reads, the form `canonical_token` writes, and the field tables          *)
(* `parse_field` builds a FieldDecl from.  A token is a sequence of        *)
(* lexemes, a quoted Literal member being one; a type is a record with a   *)
(* `kind`.  What a declaration may not say is answered with the check that *)
(* refuses it, [kind |-> "refused", check |-> ...].                        *)
(***************************************************************************)
EXTENDS Integers, Sequences, FiniteSets, SequencesExt

CONSTANTS Members       \* lexemes that are one Literal member each

Refused(check) == [kind |-> "refused", check |-> check]
Malformed == Refused("malformed_declaration")
ClosedGrammar == Refused("closed_grammar")
NoToken == Refused("channel_type_token")

IsRefused(t) == t.kind = "refused"

Primitives == {"str", "int", "float", "bool"}

Primitive(p) == [kind |-> "primitive", of |-> p]
ListOf(t) == [kind |-> "list", item |-> t]
DictOf(t) == [kind |-> "dict", value |-> t]
TupleType(ts) == [kind |-> "tuple", items |-> ts]
Optional(t) == [kind |-> "optional", inner |-> t]
LiteralOf(ms) == [kind |-> "literal", members |-> ms]
Nested(fields) == [kind |-> "nested", fields |-> fields]
Table == [kind |-> "table"]
SecretRef == [kind |-> "secret_ref"]

(* A type one of whose parts is refused is refused.                        *)
Built(parts, whole) ==
    IF \E i \in DOMAIN parts : IsRefused(parts[i])
    THEN parts[CHOOSE i \in DOMAIN parts : IsRefused(parts[i]) /\
                   \A j \in 1..(i - 1) : ~IsRefused(parts[j])]
    ELSE whole

(***************************************************************************)
(* The token grammar.                                                      *)
(***************************************************************************)
Depth(toks, i) ==
    Cardinality({j \in 1..(i - 1) : toks[j] = "["})
    - Cardinality({j \in 1..(i - 1) : toks[j] = "]"})

(* Mutant of TopLevel: inside brackets too.                                *)
Anywhere(toks, x) == {i \in DOMAIN toks : toks[i] = x}
(* The places of a lexeme outside every bracket.                           *)
TopLevel(toks, x) == {i \in DOMAIN toks : toks[i] = x /\ Depth(toks, i) = 0}

(* `_split_top_level`.                                                     *)
Split(toks, sep) ==
    LET cuts == SetToSortSeq(TopLevel(toks, sep) \cup {0, Len(toks) + 1}, <)
    IN  [k \in 1..(Len(cuts) - 1) |-> SubSeq(toks, cuts[k] + 1, cuts[k + 1] - 1)]

First(toks, x) == CHOOSE i \in DOMAIN toks :
                    toks[i] = x /\ \A j \in 1..(i - 1) : toks[j] # x

(* `Literal[...]`: every part between commas is one member.                *)
LiteralToken(body) ==
    LET parts == Split(body, ",")
    IN  IF \A k \in DOMAIN parts : Len(parts[k]) = 1 /\ parts[k][1] \in Members
        THEN LiteralOf([k \in DOMAIN parts |-> parts[k][1]]) ELSE NoToken

(* Mutant of AllowedInside: a position's permissions go down with the       *)
(* recursion.                                                              *)
AllowedThrough(allow) == allow
(* What of `allow_table` and `allow_secret_ref` reaches a collection's      *)
(* element, and the left side of `| None`.                                 *)
AllowedInside(allow) == {}
AllowedBesideNone(allow) == allow \cap {"secret_ref"}

RECURSIVE ParseToken(_, _)
ParseToken(toks, allow) ==
    LET bars == TopLevel(toks, "|")
        last == Len(toks)
    IN
    IF toks = <<>> THEN NoToken
    ELSE IF bars # {}
    THEN LET bar == CHOOSE i \in bars : \A j \in bars : i <= j
             inner == ParseToken(SubSeq(toks, 1, bar - 1), AllowedBesideNone(allow))
         IN  IF SubSeq(toks, bar + 1, last) # <<"None">> THEN NoToken
             ELSE Built(<<inner>>, Optional(inner))
    ELSE IF toks[last] = "]" /\ "[" \in ToSet(toks)
    THEN LET open == First(toks, "[")
             head == SubSeq(toks, 1, open - 1)
             body == SubSeq(toks, open + 1, last - 1)
             parts == Split(body, ",")
             inner == [k \in DOMAIN parts |-> ParseToken(parts[k], AllowedInside(allow))]
         IN  CASE head = <<"Literal">> -> LiteralToken(body)
               [] head = <<"list">> ->
                    LET item == ParseToken(body, AllowedInside(allow))
                    IN  Built(<<item>>, ListOf(item))
               [] head = <<"dict">> ->
                    IF Len(parts) # 2 \/ parts[1] # <<"str">> THEN NoToken
                    ELSE Built(<<inner[2]>>, DictOf(inner[2]))
               [] head = <<"tuple">> -> Built(inner, TupleType(inner))
               [] OTHER -> NoToken
    ELSE CASE Len(toks) # 1 -> NoToken
           [] toks[1] \in Primitives -> Primitive(toks[1])
           [] toks[1] = "table" /\ "table" \in allow -> Table
           [] toks[1] = "secret_ref" /\ "secret_ref" \in allow -> SecretRef
           [] OTHER -> NoToken

(* `canonical_token`; a nested object has no token.                        *)
Comma(parts) == FlattenSeq([k \in DOMAIN parts |->
                    IF k = 1 THEN parts[k] ELSE <<",">> \o parts[k]])

RECURSIVE Token(_)
Token(t) ==
    CASE t.kind = "primitive" -> <<t.of>>
      [] t.kind = "list" -> <<"list", "[">> \o Token(t.item) \o <<"]">>
      [] t.kind = "dict" -> <<"dict", "[", "str", ",">> \o Token(t.value) \o <<"]">>
      [] t.kind = "tuple" -> <<"tuple", "[">>
            \o Comma([k \in DOMAIN t.items |-> Token(t.items[k])]) \o <<"]">>
      [] t.kind = "optional" -> Token(t.inner) \o <<"|", "None">>
      [] t.kind = "literal" -> <<"Literal", "[">>
            \o Comma([k \in DOMAIN t.members |-> <<t.members[k]>>]) \o <<"]">>
      [] t.kind = "nested" -> <<"nested object">>
      [] OTHER -> <<t.kind>>

(***************************************************************************)
(* Field tables.  A field is written either as a token or as a table       *)
(*   [shape   : the markers present with what each holds, a sequence of    *)
(*              <<"type", token>>, <<"fields", members>>, <<"item", elem>>,*)
(*              <<"value", elem>>; an element is again such a sequence     *)
(*    keys    : its other keys, a subset of {"builtin", "dotted",          *)
(*              "dotted_no_table", "unknown", "description", "prose_not_   *)
(*              string", "default", "default_null", "default_date"}        *)
(*    nullable: "absent", "true", "false" or "other"]                      *)
(* and the section it stands in fixes what is admitted there.              *)
(***************************************************************************)
Admits == [reads         |-> {},
           output_schema |-> {},
           trained_output |-> {"description"},
           boundary      |-> {"bare"},
           identity      |-> {"bare"},
           transport     |-> {"bare", "secret_ref"},
           config        |-> {"bare", "default", "table"}]

Described(keys) == keys \cap {"description", "prose_not_string"} # {}
Keywords(keys) == keys \cap {"builtin", "dotted", "dotted_no_table"}
Defaults(keys) == keys \cap {"default", "default_null", "default_date"}

(* What goes down into the members of a nested object.                     *)
AdmittedInMembers(admits) == admits \cap {"description", "bare"}

(* The keys of a field table, in the order the code looks at them.         *)
KeyFault(f, admits) ==
    CASE Described(f.keys) /\ "description" \notin admits -> ClosedGrammar
      [] "dotted_no_table" \in f.keys -> Malformed
      [] Keywords(f.keys) # {} /\ "bare" \in admits -> ClosedGrammar
      [] "unknown" \in f.keys -> ClosedGrammar
      [] Defaults(f.keys) # {} /\ "default" \notin admits -> ClosedGrammar
      [] "prose_not_string" \in f.keys -> Malformed
      [] Len(f.shape) # 1 -> Malformed
      [] OTHER -> [kind |-> "fine"]

DefaultFault(f, type) ==
    CASE "default_null" \in f.keys -> Refused("explicit_null_target")
      [] "default_date" \in f.keys /\ type.kind = "table" -> Malformed
      [] OTHER -> [kind |-> "fine"]

Nullable(f, type) ==
    IF f.nullable = "true" /\ type.kind # "optional" THEN Optional(type) ELSE type

RECURSIVE ParseField(_, _), ParseElement(_, _, _), ParseMembers(_, _)

(* `_parse_nested_members`: a non-empty table of fields.                   *)
ParseMembers(members, admits) ==
    LET fields == [k \in DOMAIN members |-> ParseField(members[k], AdmittedInMembers(admits))]
    IN  IF members = <<>> THEN Malformed ELSE Built(fields, Nested(fields))

(* `_parse_composite_slot`: the element table has one shape key, no other. *)
ParseElement(slot, element, admits) ==
    IF Len(element) # 1 \/ element[1][1] = "type" THEN Malformed
    ELSE LET inner == IF element[1][1] = "fields"
                      THEN ParseMembers(element[1][2], admits)
                      ELSE ParseElement(element[1][1], element[1][2], admits)
         IN  Built(<<inner>>, IF slot = "item" THEN ListOf(inner) ELSE DictOf(inner))

(* `parse_field`: a FieldDecl, [kind |-> "field", type, keys].             *)
ParseField(f, admits) ==
    LET fault == KeyFault(f, admits)
        marker == f.shape[1]
        type == CASE marker[1] = "type" -> ParseToken(marker[2], admits)
                  [] marker[1] = "fields" -> ParseMembers(marker[2], admits)
                  [] OTHER -> ParseElement(marker[1], marker[2], admits)
    IN  IF IsRefused(fault) THEN fault
        ELSE IF IsRefused(type) THEN type
        ELSE IF f.nullable = "other" THEN Malformed
        ELSE IF IsRefused(DefaultFault(f, Nullable(f, type)))
        THEN DefaultFault(f, Nullable(f, type))
        ELSE [kind |-> "field", type |-> Nullable(f, type),
              keys |-> Keywords(f.keys) \cup Defaults(f.keys)
                       \cup (f.keys \cap {"description"})]

(* The parts of a type: itself and everything inside.                      *)
RECURSIVE PartsOf(_)
PartsOf(t) ==
    {t} \cup CASE t.kind = "list" -> PartsOf(t.item)
               [] t.kind = "dict" -> PartsOf(t.value)
               [] t.kind = "optional" -> PartsOf(t.inner)
               [] t.kind = "tuple" -> UNION {PartsOf(x) : x \in ToSet(t.items)}
               [] t.kind = "nested" -> UNION {PartsOf(x.type) : x \in ToSet(t.fields)}
               [] OTHER -> {}

(* `field_type_contains_optional`, which the placement rule of service-    *)
(* type fields asks.                                                       *)
ContainsOptional(t) == \E p \in PartsOf(t) : p.kind = "optional"
=============================================================================
