------------------------------ MODULE SqlText ------------------------------
(***************************************************************************)
(* What dbrex does to the text of a .sql file (core/src/sql, extension/src/*)
(* insert.ts): scanning, splitting, limits, directives, placing a block.   *)
(* A text is a sequence of tokens, blanks between them left out: words,    *)
(* signs, "nl" for a line break, "semicolon", and the whole of             *)
(* `-- @key: value` for a directive.  The text is typed token by token, so *)
(* every text up to the bound is a state.                                  *)
(***************************************************************************)
EXTENDS Naturals, Sequences, SequencesExt, FiniteSetsExt

CONSTANTS Tokens,      \* what may be typed
          Directives,  \* Directives[t]: the key of the directive t is
          MaxLen       \* bound: length of the text

VARIABLE text

NoKey == "none"
ReaderWords == {"select", "with"}
SetOperators == {"union", "except", "intersect"}
Words == ReaderWords \cup SetOperators \cup {"limit", "top", "x"}
Signs == {"nl", "semicolon", "(", ")", "'", "--", "/*", "*/"}

ASSUME TextAssumption == MaxLen \in Nat /\ DOMAIN Directives \cap (Words \cup Signs) = {}

IsDirective(t) == t \in DOMAIN Directives

-----------------------------------------------------------------------------
(* scan.ts *)

(* The region of token t, met in mode m.                                   *)
RegionOf(m, t) ==
    CASE m = "code" /\ (t = "--" \/ IsDirective(t)) -> "line-comment"
      [] m = "code" /\ t = "/*"                     -> "block-comment"
      [] m = "code" /\ t = "'"                      -> "quoted"
      [] m = "line-comment" /\ t = "nl"             -> "code"
      [] OTHER                                      -> m

(* The mode after it: the sign that closes a region is still part of it.   *)
ModeAfter(m, t) ==
    IF <<m, t>> \in {<<"block-comment", "*/">>, <<"quoted", "'">>} THEN "code" ELSE RegionOf(m, t)

(* The token reported with its region and depth: `(` already counts, `)`   *)
(* counts after it.                                                        *)
Report(s, t) ==
    LET r == RegionOf(s.mode, t)
        d == IF r = "code" /\ t = "(" THEN s.depth + 1 ELSE s.depth
    IN  [mode |-> ModeAfter(s.mode, t),
         depth |-> IF r = "code" /\ t = ")" THEN IF d = 0 THEN 0 ELSE d - 1 ELSE d,
         out |-> Append(s.out, [char |-> t, region |-> r, depth |-> d])]

ScanFrom(s) == FoldLeft(Report, [mode |-> "code", depth |-> 0, out |-> <<>>], s)
scanSql(s) == ScanFrom(s).out

(* The text ends in code, outside every group: what follows would be read. *)
EndsInCode(s) == ScanFrom(s).mode = "code" /\ ScanFrom(s).depth = 0

-----------------------------------------------------------------------------
(* split.ts *)

IsCode(e) == e.region \notin {"line-comment", "block-comment"} /\ e.char # "nl"
IsEnd(e) == e.region = "code" /\ e.char = "semicolon"

(* The statement between two terminators, or nothing if no code is in it.  *)
Chunk(s, from, to) ==
    LET ev == scanSql(s)
        solid == {i \in from..to : s[i] # "nl"}
        code == {i \in from..to : IsCode(ev[i])}
    IN  IF code = {} THEN <<>>
        ELSE <<[sql |-> SubSeq(s, Min(solid), Max(solid)), start |-> Min(solid),
                end |-> Max(solid), codeStart |-> Min(code)]>>

Ends(s) == LET ev == scanSql(s) IN {i \in DOMAIN s : IsEnd(ev[i])} \cup {Len(s) + 1}

(* push, at every terminator and at the end of the text.                   *)
splitSql(s) ==
    LET ends == Ends(s)
        push(out, i) ==
            IF i \notin ends THEN out
            ELSE out \o Chunk(s, Max({0} \cup {e \in ends : e < i}) + 1, i - 1)
    IN  FoldLeft(push, <<>>, [i \in 1..(Len(s) + 1) |-> i])

(* The statement the cursor is in, else the last that ends before it, else *)
(* the first.  A cursor stands before the token of its offset.             *)
statementAt(stmts, offset) ==
    LET inside == {k \in DOMAIN stmts : stmts[k].start <= offset /\ offset <= stmts[k].end + 1}
        before == {k \in DOMAIN stmts : stmts[k].end + 1 < offset}
    IN  IF inside # {} THEN Min(inside) ELSE IF before # {} THEN Max(before) ELSE 1

endsOpenStatement(s) == LET ev == scanSql(s) IN
    \E i \in DOMAIN s : IsCode(ev[i]) /\ \A j \in i..Len(s) : ~IsEnd(ev[j])

-----------------------------------------------------------------------------
(* limit.ts: positions at the top level, and what is found there.          *)

topLevelOnly(s) == LET ev == scanSql(s) IN
    {i \in DOMAIN s : /\ ev[i].region = "code" /\ ev[i].depth = 0
                      /\ s[i] \notin {"(", ")", "nl"}}

leadingKeyword(s) ==
    LET top == topLevelOnly(s)
    IN  IF top # {} /\ s[Min(top)] \in Words THEN s[Min(top)] ELSE NoKey

hasRowLimit(s) == \E i \in topLevelOnly(s) : s[i] \in {"limit", "top"}

TrimEnd(s) == LET solid == {i \in DOMAIN s : s[i] # "nl"}
              IN  IF solid = {} THEN <<>> ELSE SubSeq(s, 1, Max(solid))

(* One terminator at the end goes, whatever region it is in.               *)
Body(s) == LET t == TrimEnd(s) IN IF t # <<>> /\ Last(t) = "semicolon" THEN TrimEnd(Front(t)) ELSE t

applyTop(s) ==
    LET top == topLevelOnly(s)
        selects == {i \in top : s[i] = "select"}
    IN  IF selects = {} \/ \E i \in top : s[i] \in SetOperators THEN s
        ELSE InsertAt(s, Min(selects) + 1, "top")

(* Mutant of Limitable: a limit the statement has is not looked for.       *)
LimitableTwice(s, syntax) == syntax # "none" /\ leadingKeyword(s) \in ReaderWords

Limitable(s, syntax) ==
    syntax # "none" /\ leadingKeyword(s) \in ReaderWords /\ ~hasRowLimit(s)

applyRowLimit(s, syntax) ==
    IF ~Limitable(s, syntax) THEN s
    ELSE IF syntax = "top" THEN applyTop(Body(s)) ELSE Append(Body(s), "limit")

-----------------------------------------------------------------------------
(* directives.ts *)

(* A directive counts at the start of a line, and its value is the line.   *)
(* The scanner is not asked.                                               *)
parseDirectives(s) ==
    {i \in DOMAIN s : IsDirective(s[i]) /\ (i = 1 \/ s[i - 1] = "nl")}

ValueOf(s, i) ==
    LET breaks == {j \in i..Len(s) : s[j] = "nl"}
    IN  SubSeq(s, i, IF breaks = {} THEN Len(s) ELSE Min(breaks) - 1)

(* They cascade: the last of a key before the offset.                      *)
Effective(s, key, offset) ==
    LET seen == {i \in parseDirectives(s) : i < offset /\ Directives[s[i]] = key}
    IN  IF seen = {} THEN <<>> ELSE ValueOf(s, Max(seen))

(* A kind makes it an inline connection, which needs a name.               *)
configAt(s, offset) ==
    LET conn == Effective(s, "conn", offset)
        kind == Effective(s, "kind", offset)
    IN  [connection |-> IF conn = <<>> THEN kind ELSE conn, inline |-> kind]

strandedConnection(s, stmt) ==
    LET inside == {i \in parseDirectives(s) : stmt.codeStart <= i /\ i <= stmt.end
                                              /\ Directives[s[i]] = "conn"}
    IN  IF inside = {} THEN <<>> ELSE ValueOf(s, Min(inside))

-----------------------------------------------------------------------------
(* insert.ts, with the insertion at the end of the text.                   *)

(* Mutant of placeBlock: the block only starts a line.                     *)
placeOnItsLine(s, block) ==
    (IF s # <<>> /\ Last(s) # "nl" THEN <<"nl">> ELSE <<>>) \o block

placeBlock(s, block) ==
    (IF endsOpenStatement(s) THEN <<"semicolon", "nl">>
     ELSE IF s # <<>> /\ Last(s) # "nl" THEN <<"nl">> ELSE <<>>) \o block

-----------------------------------------------------------------------------
TextTypeOK == text \in Seq(Tokens) /\ Len(text) <= MaxLen

TextInit == text = <<>>

TypeToken(t) == Len(text) < MaxLen /\ text' = Append(text, t)

TextNext == \E t \in Tokens : TypeToken(t)

TextSpec == TextInit /\ [][TextNext]_text

Statements == splitSql(text)

(* Splitting loses no code and invents none, and a statement sent on its   *)
(* own is read as it was in the file (split.ts:26-61).                     *)
SplitIsFaithful ==
    LET ev == scanSql(text)
    IN  /\ \A i \in DOMAIN text : IsCode(ev[i]) /\ ~IsEnd(ev[i]) =>
              \E k \in DOMAIN Statements : Statements[k].codeStart <= i /\ i <= Statements[k].end
        /\ \A k \in DOMAIN Statements :
              LET s == Statements[k]
              IN  /\ s.sql = SubSeq(text, s.start, s.end)
                  /\ \A l \in 1..(k - 1) : Statements[l].end < s.start
                  /\ \A i \in DOMAIN s.sql : scanSql(s.sql)[i].region = ev[s.start + i - 1].region
                  /\ splitSql(s.sql) = <<[sql |-> s.sql, start |-> 1, end |-> Len(s.sql),
                                          codeStart |-> s.codeStart - s.start + 1]>>

(* Wherever the cursor is, what runs is the nearest statement that starts  *)
(* at or before it, or the first (split.ts:69-76).                         *)
NearestStatementRuns ==
    Statements # <<>> => \A at \in 1..Len(text) + 1 :
        LET started == {k \in DOMAIN Statements : Statements[k].start <= at}
        IN  statementAt(Statements, at) = IF started = {} THEN 1 ELSE Max(started)

(* A limit that is added is one the engine reads, and is added once: so    *)
(* for a statement that does not end within a comment, a string or a group *)
(* (limit.ts:50-62).                                                       *)
LimitTakesEffect ==
    \A k \in DOMAIN Statements, syntax \in {"limit", "top"} :
        LET s == Statements[k].sql
            limited == applyRowLimit(s, syntax)
        IN  limited \notin {s, Body(s)} /\ EndsInCode(Body(s)) =>
                hasRowLimit(limited) /\ applyRowLimit(limited, syntax) = limited

(* TOP never limits one branch of a set operator, and never lands in a     *)
(* comment, a string or a group (limit.ts:68-95).                          *)
TopBindsTheWhole ==
    \A k \in DOMAIN Statements :
        LET s == Statements[k].sql
        IN  applyRowLimit(s, "top") \notin {s, Body(s)} =>
                /\ hasRowLimit(applyRowLimit(s, "top"))
                /\ \A i \in topLevelOnly(s) : s[i] \notin SetOperators

(* Every connection a file names is either the one in force where the      *)
(* statement it stands in or above begins, or overridden there, or         *)
(* reported as stranded (directives.ts:74-132).                            *)
NoConnectionIsLost ==
    \A k \in DOMAIN Statements, i \in parseDirectives(text) :
        LET s == Statements[k]
        IN  Directives[text[i]] = "conn" /\ s.start <= i /\ i <= s.end =>
                \/ strandedConnection(text, s) # <<>>
                \/ /\ i < s.codeStart
                   /\ \/ configAt(text, s.codeStart).connection = ValueOf(text, i)
                      \/ \E j \in parseDirectives(text) : i < j /\ j < s.codeStart

(* No directive stands on the last line: what comes after it would be part*)
(* of its value.                                                           *)
LastLineIsFree(s) == \A i \in parseDirectives(s) : \E j \in i..Len(s) : s[j] = "nl"

(* A block inserted below a text runs on the connection it names, and what *)
(* was above still runs on its own: so when the text does not end within a *)
(* comment or a string, nor on the line of a directive that stands within  *)
(* one (insert.ts:39-53, split.ts:91-105).                                 *)
PlacedBlockKeepsItsConnection ==
    \A d \in DOMAIN Directives :
        Directives[d] = "conn" /\ ScanFrom(text).mode = "code" /\ LastLineIsFree(text) =>
            LET placed == text \o placeBlock(text, <<d, "nl", "select">>)
                stmts == splitSql(placed)
                own == stmts[Len(stmts)]
                configs(s) == [k \in DOMAIN splitSql(s) |->
                                  configAt(s, splitSql(s)[k].codeStart).connection]
            IN  /\ configs(placed) = Append(configs(text), <<d>>)
                /\ strandedConnection(placed, own) = <<>>
                /\ Len(stmts) = Len(Statements) + 1

(* What is sent is a statement of the file, with its limit where the engine*)
(* reads it (split.ts, limit.ts).                                          *)
StatementsAreSound == TextTypeOK /\ SplitIsFaithful /\ NearestStatementRuns /\ LimitTakesEffect /\ TopBindsTheWhole

(* A statement runs on the connection its file names for it (directives.ts,*)
(* insert.ts).                                                             *)
ConnectionsAreKept == NoConnectionIsLost /\ PlacedBlockKeepsItsConnection
=============================================================================
