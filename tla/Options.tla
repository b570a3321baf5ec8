------------------------------ MODULE Options ------------------------------
(***************************************************************************)
(* The options object (src/src/opt.c, src/src/opt_check.c): a list of      *)
(* records and their values, and what a line of a configuration file       *)
(* (src/src/cfg.c) is.                                                     *)
(*                                                                         *)
(* The text of a value is a record with a "form": a number, a word (upper  *)
(* or lower case, the programs never ask for a strict comparison), another *)
(* form of the caller's, or nothing. NoKey is the empty key, and the short *)
(* key of a record that has none.                                          *)
(***************************************************************************)
EXTENDS Integers, Sequences, SequencesExt

Null       == [form |-> "null"]
Empty      == [form |-> "empty"]
NoKey      == "none"
Number(n)  == [form |-> "number", n |-> n]
Word(w)    == [form |-> "word", word |-> w]

-----------------------------------------------------------------------------
(* Records: KEY_BOOL, KEY_STR, KEY_INT and KEY_ENUM.                       *)

KeyBool(key, sKey, def) == [type |-> "BOOL", key |-> key, sKey |-> sKey, def |-> def]
KeyStr(key, sKey, def)  == [type |-> "STR",  key |-> key, sKey |-> sKey, def |-> def]

KeyInt(key, sKey, def, min, max) ==
    [type |-> "INT", key |-> key, sKey |-> sKey, def |-> def, min |-> min, max |-> max]

\* names[i] is the name of i, as the callback gives it.
KeyEnum(key, sKey, def, names, min, max) ==
    [type |-> "ENUM", key |-> key, sKey |-> sKey, def |-> def, min |-> min, max |-> max, names |-> names]

-----------------------------------------------------------------------------
(* Values.                                                                 *)

\* "flase" is the code's spelling: "false" is no Boolean.
BoolWords == [b \in BOOLEAN |-> IF b THEN {"true", "on", "yes"}
                                ELSE {"flase", "no", "off", "none", "null"}]

\* The mutant does not look at the range of an integer.
ValuesUnbounded(r, s) ==
    CASE s \in {Null, Empty} -> {}
      [] r.type = "STR"  -> {s}
      [] r.type = "BOOL" -> IF s.form = "number" THEN {s.n # 0}
                            ELSE {b \in BOOLEAN : s.form = "word" /\ s.word \in BoolWords[b]}
      [] r.type = "INT"  -> IF s.form = "number" THEN {s.n} ELSE {}
      [] r.type = "ENUM" -> {i \in r.min .. r.max : s = Number(i) \/ s = Word(r.names[i])}

\* The value that text s has for record r, in a set: {} when it has none.
Values(r, s) ==
    CASE s \in {Null, Empty} -> {}
      [] r.type = "STR"  -> {s}
      [] r.type = "BOOL" -> IF s.form = "number" THEN {s.n # 0}
                            ELSE {b \in BOOLEAN : s.form = "word" /\ s.word \in BoolWords[b]}
      [] r.type = "INT"  -> IF s.form = "number" THEN {s.n} \intersect (r.min .. r.max) ELSE {}
      [] r.type = "ENUM" -> {i \in r.min .. r.max : s = Number(i) \/ s = Word(r.names[i])}

\* Nothing is stored in a fresh record. (memset leaves "val" zero.)
NotSet == [isSet |-> FALSE, isAlloc |-> FALSE]

Store(v, val, isAlloc) == [isSet |-> TRUE, isAlloc |-> isAlloc, val |-> val]

Kept(v) == [ok |-> TRUE, v |-> v]

\* parse_val, without OPT_STR_PASS. The first value stays, and then s is not
\* looked at. A string is kept where it is, or duplicated, which may fail
\* (~dup): the option then counts as set, to NULL.
ParseVal(r, v, s, fl, dup) ==
    IF v.isSet /\ "REPLACE" \notin fl THEN Kept(v)
    ELSE IF r.type = "BOOL" /\ "BOOL_DEF" \in fl
         THEN [ok |-> TRUE, v |-> Store(v, ~r.def, v.isAlloc)]
    ELSE IF Values(r, s) = {} THEN [ok |-> FALSE, v |-> v]
    ELSE LET val  == CHOOSE x \in Values(r, s) : TRUE
             copy == r.type = "STR" /\ "STR_DUP" \in fl
         IN  [ok |-> TRUE, v |-> Store(v, IF copy /\ ~dup THEN Null ELSE val, copy /\ dup)]

-----------------------------------------------------------------------------
(* The object.                                                             *)

OptAlloc == [recs |-> <<>>, vals |-> <<>>]

AddRecords(opt, recs) ==
    [recs |-> opt.recs \o recs, vals |-> opt.vals \o [i \in DOMAIN recs |-> NotSet]]

\* Where the loops of parseSkey, parseKey and the getters stop; 0 if nowhere.
\* A record whose key is empty is not found by key.
BySkey(opt, o) == IF o = NoKey THEN 0 ELSE SelectInSeq(opt.recs, LAMBDA r : r.sKey = o)
ByKey(opt, k)  == IF k = NoKey THEN 0 ELSE SelectInSeq(opt.recs, LAMBDA r : r.key = k)

IsSkey(opt, o)  == BySkey(opt, o) # 0
KeyType(opt, k) == IF ByKey(opt, k) = 0 THEN "INV" ELSE opt.recs[ByKey(opt, k)].type

ParseAt(opt, i, s, fl, dup) ==
    IF i = 0 THEN [ok |-> FALSE, opt |-> opt]
    ELSE LET p == ParseVal(opt.recs[i], opt.vals[i], s, fl, dup)
         IN  [ok |-> p.ok, opt |-> [opt EXCEPT !.vals[i] = p.v]]

ParseSkey(opt, o, s, fl)    == ParseAt(opt, BySkey(opt, o), s, fl, TRUE)
ParseKey(opt, k, s, fl, dup) == ParseAt(opt, ByKey(opt, k), s, fl, dup)

GetValSkey(opt, o) ==
    LET i == BySkey(opt, o) IN IF opt.vals[i].isSet THEN opt.vals[i].val ELSE opt.recs[i].def

\* Whether the value is a string that belongs to the object.
OwnedSkey(opt, o) == opt.vals[BySkey(opt, o)].isAlloc

\* The characters that getopt takes, each with whether it has an argument.
Getopt(opt) ==
    {[o |-> r.sKey, arg |-> r.type # "BOOL"] : r \in {x \in ToSet(opt.recs) : x.sKey # NoKey}}

-----------------------------------------------------------------------------
(* opt_duplicates. It is true when there are none.                         *)

IsValid(c) == c \notin {"-", ":", ";", "+", "W"}

OptDuplicates(opt, preOptions, longOptions) ==
    LET sKeys == SelectSeq([i \in DOMAIN opt.recs |-> opt.recs[i].sKey], LAMBDA c : c # NoKey)
        keys  == SelectSeq(longOptions \o [i \in DOMAIN opt.recs |-> opt.recs[i].key],
                           LAMBDA k : k # NoKey)
    IN  /\ opt.recs # <<>>
        /\ \A c \in ToSet(sKeys) : IsValid(c)
        /\ IsInjective(SelectSeq(preOptions, IsValid) \o sKeys)
        /\ IsInjective(keys)

-----------------------------------------------------------------------------
(* A line of a configuration file.                                         *)

Blank   == [kind |-> "blank"]     \* nothing or a comment
Section == [kind |-> "section"]   \* begins with "["
Broken  == [kind |-> "broken"]    \* no "=", nothing behind it, or too long
Pair(key, text, quoted) == [kind |-> "pair", key |-> key, text |-> text, quoted |-> quoted]

\* cfg_rmStrQuote, for strings only: quotation marks around anything else
\* stay and make it no value of its type.
LineText(opt, line) ==
    IF line.quoted /\ KeyType(opt, line.key) # "STR" THEN Word("quoted") ELSE line.text

\* The mutant lets the file replace what the command line said.
ParseLineReplaces(opt, line, dup) ==
    IF line.kind = "blank" THEN [ok |-> TRUE, opt |-> opt]
    ELSE IF line.kind # "pair" THEN [ok |-> FALSE, opt |-> opt]
    ELSE ParseKey(opt, line.key, LineText(opt, line), {"STR_DUP", "REPLACE"}, dup)

\* _parseLine, and key_f for the pairs. There is no handler for sections.
ParseLine(opt, line, dup) ==
    IF line.kind = "blank" THEN [ok |-> TRUE, opt |-> opt]
    ELSE IF line.kind # "pair" THEN [ok |-> FALSE, opt |-> opt]
    ELSE ParseKey(opt, line.key, LineText(opt, line), {"STR_DUP"}, dup)
=============================================================================
