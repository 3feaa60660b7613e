-------------------------------- MODULE Tables --------------------------------
(***************************************************************************)
(* A tenant's own table over HTTP: /rest/v1/{table} and /v1/tables/{table} *)
(* (routers/rest.py) with the strict grammar of helpers/query.py.          *)
(*                                                                         *)
(* A call says twice what it is about: `sent` is what reaches the server,  *)
(* filters, groups and lists as text; `means` is what the client means by  *)
(* it, which the server never sees.  A text is a sequence of the           *)
(* characters the grammar tells apart (quote, backslash, comma,            *)
(* parentheses, space, letters); an operator, a column and the period      *)
(* after it are one token each.                                            *)
(*                                                                         *)
(* A statement scans the table, waits for the rows that another            *)
(* transaction has changed, and writes; it commits by itself, or after the *)
(* check of the .single() contract.  Requests run on workers of their own. *)
(***************************************************************************)
EXTENDS RequestLife, Integers, SequencesExt

CONSTANTS
  Keys,        \* 1..N: the values of the key column "id"
  Default,     \* the default of the columns "a" and "b", a text
  Unrenderable, \* the values a row may have and JSON has not (NaN, Infinity)
  MaxRows      \* REST_MAX_LIMIT, and the limit of a read that gives none

Columns == {"id", "a", "b"}
NoRow == [none |-> "none"]

\* ?limit= and ?offset= when they are no number: not given, given empty.
Absent == -2
Empty == -3

ASSUME TablesAssumption ==
  MaxRows \in Nat /\ Keys = 1..Cardinality(Keys)

VARIABLES
  table,   \* table[k]: the row with id k as [a, b], or NoRow
  keyed,   \* "id" is the primary key (else it is unique and not null)
  scan,    \* scan[r]: the table as the statement of r began
  pend,    \* pend[r]: the rows r has changed and not committed, by key
  returned, \* returned[r]: the rows that RETURNING has given r
  did      \* history: see NoDeed

tableVars == <<table, keyed, scan, pend, returned, did>>

Nothing == <<>>   \* the function on no keys

\* The rows a request has committed, those it has read, the tables its
\* statement scanned and found when it wrote, and the count it has taken.
NoDeed == [wrote |-> Nothing, read |-> {}, scanned |-> Nothing, found |-> Nothing,
           count |-> -1]

TablesInit ==
  /\ scan = [r \in Requests |-> Nothing]
  /\ pend = [r \in Requests |-> Nothing]
  /\ returned = [r \in Requests |-> {}]
  /\ did = [r \in Requests |-> NoDeed]

----------------------------------------------------------------------------
(***************************************************************************)
(* The text of lists and groups.  A parser gives <<>> for text it refuses, *)
(* else the one-element sequence of what it has read.                      *)
(***************************************************************************)

Quote == "\""
Escape == "\\"

Stripped(s) ==
  LET I == {i \in DOMAIN s : s[i] # " "}
  IN  IF I = {} THEN <<>> ELSE SubSeq(s, Min(I), Max(I))

\* One character of split_quoted_list: between items, in a bare or a quoted
\* one, after a backslash in it, after it, or in a list that is malformed.
ListStep(st, c) ==
  LET within(where) == [st EXCEPT !.at = where, !.buf = Append(@, c)]
      fresh(where, buf) == [st EXCEPT !.at = where, !.buf = buf]
      item == [st EXCEPT !.at = "gap", !.items = Append(@, Stripped(st.buf))]
  IN  CASE st.at = "gap" -> IF c \in {" ", ","} THEN st
                            ELSE IF c = Quote THEN fresh("quoted", <<>>) ELSE fresh("bare", <<c>>)
        [] st.at = "bare" -> IF c = Quote THEN fresh("bad", <<>>)
                             ELSE IF c = "," THEN item ELSE within("bare")
        [] st.at = "quoted" -> IF c = Escape THEN fresh("escaped", st.buf)
                               ELSE IF c = Quote THEN fresh("after", st.buf) ELSE within("quoted")
        [] st.at = "escaped" -> within("quoted")
        [] st.at = "after" -> IF c = " " THEN st
                              ELSE IF c = "," THEN [item EXCEPT !.items = Append(st.items, st.buf)]
                              ELSE fresh("bad", <<>>)
        [] st.at = "bad" -> st

\* The items when the text ends.
ListEnd(end) ==
  CASE end.at \in {"quoted", "escaped", "bad"} -> <<>>
    [] end.at = "gap" -> <<end.items>>
    [] end.at = "bare" -> <<Append(end.items, Stripped(end.buf))>>
    [] end.at = "after" -> <<Append(end.items, end.buf)>>
SplitList(s) == ListEnd(FoldLeft(ListStep, [at |-> "gap", buf |-> <<>>, items |-> <<>>], s))

\* Fault: _split_top, the splitter of the lenient dialect, to which quotes
\* are characters like any other.
LenientGroupStep(st, c) ==
  LET kept == [st EXCEPT !.buf = Append(@, c)] IN
  CASE c = "(" -> [kept EXCEPT !.depth = @ + 1]
    [] c = ")" -> [kept EXCEPT !.depth = @ - 1]
    [] c = "," /\ st.depth = 0 -> [st EXCEPT !.parts = Append(@, st.buf), !.buf = <<>>]
    [] OTHER -> kept

\* One character of _split_top_quoted: commas count outside of quotes and
\* parentheses only.
GroupStep(st, c) ==
  LET kept == [st EXCEPT !.buf = Append(@, c)] IN
  IF st.escaped THEN [kept EXCEPT !.escaped = FALSE]
  ELSE IF st.quoted THEN [kept EXCEPT !.escaped = (c = Escape), !.quoted = (c # Quote)]
  ELSE CASE c = Quote -> [kept EXCEPT !.quoted = TRUE]
         [] c = "(" -> [kept EXCEPT !.depth = @ + 1]
         [] c = ")" -> [kept EXCEPT !.depth = @ - 1]
         [] c = "," /\ st.depth = 0 -> [st EXCEPT !.parts = Append(@, st.buf), !.buf = <<>>]
         [] OTHER -> kept

GroupEnd(end) ==
  IF end.quoted THEN <<>>
  ELSE <<IF end.buf = <<>> THEN end.parts ELSE Append(end.parts, end.buf)>>
SplitGroup(s) == GroupEnd(FoldLeft(GroupStep, [parts |-> <<>>, buf |-> <<>>, depth |-> 0,
                                               quoted |-> FALSE, escaped |-> FALSE], s))

\* _unquote_value: a value that is quoted as a whole, its escapes resolved;
\* an escape at its end escapes nothing and stays.
Unquoted(v) ==
  LET step(st, c) == IF ~st.escaped /\ c = Escape THEN [st EXCEPT !.escaped = TRUE]
                     ELSE [text |-> Append(st.text, c), escaped |-> FALSE]
      end == FoldLeft(step, [text |-> <<>>, escaped |-> FALSE], SubSeq(v, 2, Len(v) - 1))
  IN  IF Len(v) < 2 \/ v[1] # Quote \/ Last(v) # Quote THEN v
      ELSE IF end.escaped THEN Append(end.text, Escape) ELSE end.text

----------------------------------------------------------------------------
(***************************************************************************)
(* Filters.  A condition is [col, neg, op, vals]; a clause is a set of     *)
(* them of which any or all must hold; a row must satisfy every clause.    *)
(***************************************************************************)

KnownOps == {"eq", "neq", "in"}
Digits == <<"1", "2", "3", "4">>
Cell(k, row, col) == IF col = "id" THEN <<Digits[k]>> ELSE row[col]

Holds(c, k, row) ==
  LET v == Cell(k, row, c.col)
      plain == CASE c.op = "eq" -> v = c.vals[1]
                 [] c.op = "neq" -> v # c.vals[1]
                 [] c.op = "in" -> v \in ToSet(c.vals)
  IN  plain # c.neg
Satisfies(clauses, k, row) ==
  \A cl \in clauses : IF cl.any THEN \E c \in cl.conds : Holds(c, k, row)
                      ELSE \A c \in cl.conds : Holds(c, k, row)
Matching(clauses, t) == {k \in Keys : t[k] # NoRow /\ Satisfies(clauses, k, t[k])}

\* _parse_op, strict: an operator, perhaps after "not", must be there.
Operation(neg, body) ==
  IF Len(body) >= 2 /\ body[1] \in KnownOps /\ body[2] = "."
  THEN <<[neg |-> neg, op |-> body[1], value |-> SubSeq(body, 3, Len(body))]>>
  ELSE <<>>
ParseOp(raw) ==
  IF Len(raw) >= 3 /\ raw[1] = "not" /\ raw[2] = "." /\ raw[3] \in KnownOps
  THEN Operation(TRUE, SubSeq(raw, 3, Len(raw)))
  ELSE Operation(FALSE, raw)

\* _coerce: "id" is an integer column.
Coerces(col, v) == col = "id" => Len(v) = 1 /\ v[1] \in ToSet(Digits)

\* _build_condition: the values of an operation, and the condition.
Bracketed(s) == Len(s) >= 2 /\ s[1] = "(" /\ Last(s) = ")"
Inner(s) == SubSeq(s, 2, Len(s) - 1)
Values(p, inGroup) ==
  IF p.op = "in" THEN IF Bracketed(p.value) THEN SplitList(Inner(p.value)) ELSE <<>>
  ELSE <<<<IF inGroup THEN Unquoted(p.value) ELSE p.value>>>>
Compared(col, p, vals) ==
  IF vals \in {<<>>, <<<<>>>>} THEN <<>>
  ELSE IF \E i \in DOMAIN vals[1] : ~Coerces(col, vals[1][i]) THEN <<>>
  ELSE <<[col |-> col, neg |-> p.neg, op |-> p.op, vals |-> vals[1]]>>
Condition(col, raw, inGroup) ==
  LET parsed == ParseOp(raw) IN
  IF parsed = <<>> \/ col \notin Columns THEN <<>>
  ELSE Compared(col, parsed[1], Values(parsed[1], inGroup))

\* _build_bool_group: "(col.op.value,...)"
Part(t) == IF Len(t) >= 2 /\ t[2] = "." THEN Condition(t[1], SubSeq(t, 3, Len(t)), TRUE) ELSE <<>>
Joined(conds, any) ==
  IF conds = <<>> \/ \E i \in DOMAIN conds : conds[i] = <<>> THEN <<>>
  ELSE <<[any |-> any, conds |-> {conds[i][1] : i \in DOMAIN conds}]>>
GroupOf(parts, any) ==
  IF parts = <<>> THEN <<>>
  ELSE Joined([i \in DOMAIN parts[1] |-> Part(Stripped(parts[1][i]))], any)
Group(raw, any) ==
  LET s == Stripped(raw) IN GroupOf(SplitGroup(IF Bracketed(s) THEN Inner(s) ELSE s), any)

\* The clauses of parse_query: the filters, ?or= and ?and=, each or <<>>.
Clauses(sent) ==
  {LET c == Condition(f.col, f.raw, FALSE) IN
     IF c = <<>> THEN <<>> ELSE <<[any |-> FALSE, conds |-> {c[1]}]>> : f \in sent.filters}
  \cup (IF sent.or = <<>> THEN {} ELSE {Group(sent.or, TRUE)})
  \cup (IF sent.and = <<>> THEN {} ELSE {Group(sent.and, FALSE)})
Where(sent) == {cl[1] : cl \in Clauses(sent)}

----------------------------------------------------------------------------
(***************************************************************************)
(* The window of a statement.                                              *)
(***************************************************************************)

Given(raw) == raw \notin {Absent, Empty}
Number(raw) == ~Given(raw) \/ raw >= 0
NoLimit == MaxRows + 1

\* parse_query: a read has a limit, and the maximum clamps it.
ReadLimit(sent) == IF Given(sent.limit) /\ sent.limit <= MaxRows THEN sent.limit ELSE MaxRows

\* _write_window: <<>> unless the client asks for one.
WriteWindow(sent) ==
  IF ~Given(sent.limit) /\ ~Given(sent.offset) THEN <<>>
  ELSE <<[limit |-> IF Given(sent.limit) THEN sent.limit ELSE NoLimit,
          offset |-> IF Given(sent.offset) THEN sent.offset ELSE 0]>>

\* What ORDER BY id, LIMIT and OFFSET may leave of a set of keys.
Cuts(M, order, limit, offset) ==
  LET sorted(s) == \A i, j \in DOMAIN s : i < j =>
        /\ order = "asc" => s[i] < s[j]
        /\ order = "desc" => s[j] < s[i]
  IN  {ToSet(SubSeq(s, offset + 1, Min({offset + limit, Len(s)}))) :
         s \in {x \in SetToSeqs(M) : sorted(x)}}

----------------------------------------------------------------------------
(***************************************************************************)
(* What a handler refuses before its statement.                            *)
(***************************************************************************)

\* _check_debug_value, _check_known_keys, parse_query.
BadQuery(sent) ==
  \/ sent.debug = "filter"
  \/ \E f \in sent.filters : f.col \notin Columns
  \/ <<>> \in Clauses(sent)
  \/ sent.order = "bad" \/ sent.select = "bad"
  \/ ~Number(sent.limit) \/ ~Number(sent.offset)

\* _write_window: a write is never clamped.
OverMax(sent) == Given(sent.limit) /\ sent.limit > MaxRows

\* _check_insert_keys: an insert takes no filter, order or window.
BadInsertKeys(sent) ==
  \/ sent.debug = "filter" \/ sent.select = "bad"
  \/ sent.filters # {} \/ sent.or # <<>> \/ sent.and # <<>> \/ sent.order # "none"
  \/ sent.limit # Absent \/ sent.offset # Absent

\* The columns of an INSERT: ?columns=, or those of the items.
NamedColumns(list) ==
  IF list \in {<<>>, <<<<>>>>} THEN <<>>
  ELSE <<{IF Len(t) = 1 THEN t[1] ELSE "?" : t \in ToSet(list[1])}>>
InsertColumns(ask) ==
  IF ask.sent.columns # <<>> THEN NamedColumns(SplitList(ask.sent.columns[1]))
  ELSE <<UNION {DOMAIN ask.body[i] : i \in DOMAIN ask.body}>>

Target(ask) == IF ask.sent.target # {} THEN ask.sent.target ELSE IF keyed THEN {"id"} ELSE {}

\* Fault: items of a merge need not have the same keys.
AnyKeys(ask, cols) == TRUE

\* Without ?columns= the items of a merge have the same keys.
SameKeys(ask, cols) ==
  ask.resolution = "merge" /\ ask.sent.columns = <<>> =>
    \A i \in DOMAIN ask.body : DOMAIN ask.body[i] = cols

BadColumns(ask, cols) ==
  \/ cols = <<>>
  \/ ~(cols[1] \subseteq Columns)
  \/ cols[1] = {} /\ Len(ask.body) # 1
  \/ /\ ask.resolution # "none"
     /\ \/ Target(ask) = {} \/ ~(Target(ask) \subseteq Columns)
        \/ ~SameKeys(ask, cols[1])
BadInsert(ask) == BadColumns(ask, InsertColumns(ask))

Refused(ask) ==
  \/ ask.table # "t"
  \/ ask.op = "insert" /\ (BadInsertKeys(ask.sent) \/ ask.shape \notin {"object", "list"})
  \/ ask.op = "insert" /\ ask.body # <<>> /\ BadInsert(ask)
  \/ ask.op # "insert" /\ BadQuery(ask.sent)
  \/ ask.op \in {"patch", "delete"} /\ OverMax(ask.sent)
  \/ ask.op = "patch" /\ (ask.shape # "object" \/ ask.body[1] = Nothing
                            \/ ~(DOMAIN ask.body[1] \subseteq Columns))

----------------------------------------------------------------------------
(***************************************************************************)
(* The handlers.                                                           *)
(***************************************************************************)

IsTable(r) == call[r].kind = "table"
Ask(r) == call[r].ask

\* The body of the request is awaited.
TableBody(r) ==
  /\ pc[r] = "body" /\ IsTable(r)
  /\ IF Ask(r).op \in {"insert", "patch"} /\ Ask(r).shape = "broken"
     THEN Answer(r, "bad request") ELSE Go(r, "check")
  /\ UNCHANGED tableVars

\* .single() applies to /rest/v1, to reads and to writes that return rows.
Single(ask) == ask.path = "rest" /\ ask.single /\ (ask.op = "get" \/ ask.returning)

\* The table is reflected, the query parsed, the statement built.
Check(r) ==
  LET ask == Ask(r) IN
  /\ pc[r] = "check"
  /\ IF Refused(ask) THEN Answer(r, "bad request")
     ELSE IF ask.op = "insert" /\ ask.body = <<>>
          THEN Answer(r, IF Single(ask) THEN "mismatch" ELSE "ok")
          ELSE Go(r, IF ask.op # "get" THEN "scan" ELSE IF ask.count THEN "count" ELSE "select")
  /\ UNCHANGED tableVars

\* Prefer: count=exact, a statement before the rows are read.
CountRows(r) ==
  /\ pc[r] = "count"
  /\ did' = [did EXCEPT ![r].count = Cardinality(Matching(Where(Ask(r).sent), table)),
                        ![r].scanned = table]
  /\ Go(r, "select")
  /\ UNCHANGED <<table, keyed, scan, pend, returned>>

\* The framework writes rows as JSON, and fails on some of them.
Renders(row) == row.a \notin Unrenderable /\ row.b \notin Unrenderable
Rendered(rows) == IF \A row \in rows : Renders(row) THEN "ok" ELSE "internal error"

SelectRows(r) ==
  LET ask == Ask(r)
      offset == IF Given(ask.sent.offset) THEN ask.sent.offset ELSE 0
  IN
  /\ pc[r] = "select"
  /\ \E R \in Cuts(Matching(Where(ask.sent), table), ask.sent.order, ReadLimit(ask.sent), offset) :
       /\ did' = [did EXCEPT ![r].read = R, ![r].found = table]
       /\ Answer(r, IF Single(ask) /\ Cardinality(R) # 1 THEN "mismatch"
                    ELSE Rendered({table[k] : k \in R}))
  /\ UNCHANGED <<table, keyed, scan, pend, returned>>

\* A statement begins: it sees what is committed.
Scan(r) ==
  /\ pc[r] = "scan"
  /\ scan' = [scan EXCEPT ![r] = table]
  /\ Go(r, "write")
  /\ UNCHANGED <<table, keyed, pend, returned, did>>

\* The keys an UPDATE or DELETE may write: it looks again at a row that has
\* changed since its scan.  A windowed one, which names rows by their place
\* (ctid), may leave out a row that has moved, or write it whatever it is now.
Targets(r) ==
  LET ask == Ask(r)
      window == WriteWindow(ask.sent)
      M == Matching(Where(ask.sent), scan[r])
      moved == {k \in Keys : table[k] # scan[r][k]}
      there == {k \in Keys : table[k] # NoRow}
  IN  IF window = <<>> THEN {M \cap Matching(Where(ask.sent), table)}
      ELSE UNION {{(W \ moved) \cup V : V \in SUBSET (W \cap moved \cap there)} :
                    W \in Cuts(M, ask.sent.order, window[1].limit, window[1].offset)}

Updated(row, item) == [c \in {"a", "b"} |-> IF c \in DOMAIN item THEN item[c] ELSE row[c]]

\* build_update_sql, build_delete_sql: the rows a statement leaves.
Changed(ask, W) ==
  [k \in W |-> IF ask.op = "delete" THEN NoRow ELSE Updated(table[k], ask.body[1])]

\* One item of INSERT ... ON CONFLICT, after the rows of the items before it;
\* k is its key.
Placed(ask, cols, st, item, k) ==
  LET given == [c \in {"a", "b"} |->
                  IF c \in cols /\ c \in DOMAIN item THEN item[c] ELSE Default]
      sets == cols \ Target(ask)
      merged == [c \in {"a", "b"} |-> IF c \in sets THEN given[c] ELSE table[k][c]]
      Puts(row) == [st EXCEPT !.rows = Overlaid(@, [i \in {k} |-> row])]
  IN  IF k \notin DOMAIN st.rows /\ table[k] = NoRow THEN Puts(given)
      ELSE IF ask.resolution = "none" \/ Target(ask) # {"id"} THEN [st EXCEPT !.ok = FALSE]
      ELSE IF ask.resolution = "ignore" \/ sets = {} THEN st
      ELSE IF k \in DOMAIN st.rows THEN [st EXCEPT !.ok = FALSE]
      ELSE Puts(merged)
InsertStep(ask, cols, st, item) ==
  LET ids == {k \in Keys : "id" \in cols \cap DOMAIN item /\ item["id"] = <<Digits[k]>>}
  IN  IF ~st.ok \/ ids = {} THEN [st EXCEPT !.ok = FALSE]
      ELSE Placed(ask, cols, st, item, CHOOSE k \in ids : TRUE)

InsertedIn(ask, cols) ==
  LET after[i \in 0..Len(ask.body)] ==
        IF i = 0 THEN [ok |-> TRUE, rows |-> Nothing]
        ELSE InsertStep(ask, cols, after[i - 1], ask.body[i])
  IN  after[Len(ask.body)]
Inserted(ask) == InsertedIn(ask, InsertColumns(ask)[1])

\* Rows that another transaction has changed and not committed.
Locked(r) == UNION {DOMAIN pend[q] : q \in Requests \ {r}}

\* What RETURNING gives of the rows W, in a table t: a row as it is left, or as
\* it was before it is deleted.
Returning(W, t) == {IF W[k] = NoRow THEN t[k] ELSE W[k] : k \in DOMAIN W}

\* _run_write: the statement writes, or waits, or the database refuses it.
Write(r) ==
  LET ask == Ask(r)
      writes == IF ask.op = "insert" THEN {Inserted(ask)}
                ELSE {[ok |-> TRUE, rows |-> Changed(ask, W)] : W \in Targets(r)}
  IN
  /\ pc[r] = "write"
  /\ \/ \E w \in writes :
          /\ DOMAIN w.rows \cap Locked(r) = {}
          /\ w.ok
          /\ pend' = [pend EXCEPT ![r] = w.rows]
          /\ returned' = [returned EXCEPT ![r] = IF ask.returning THEN Returning(w.rows, table) ELSE {}]
          /\ did' = [did EXCEPT ![r].scanned = scan[r], ![r].found = table]
          /\ Go(r, "settle")
     \/ Answer(r, "refused") /\ UNCHANGED <<pend, returned, did>>
  /\ scan' = [scan EXCEPT ![r] = Nothing]
  /\ UNCHANGED <<table, keyed>>

\* Fault: the object contract is checked after the statement has committed.
SettleThenCheck(r) ==
  /\ pc[r] = "settle"
  /\ table' = [k \in Keys |-> IF k \in DOMAIN pend[r] THEN pend[r][k] ELSE table[k]]
  /\ did' = [did EXCEPT ![r].wrote = pend[r]]
  /\ pend' = [pend EXCEPT ![r] = Nothing]
  /\ IF Single(Ask(r)) /\ Cardinality(DOMAIN pend[r]) # 1 THEN Answer(r, "mismatch")
     ELSE Go(r, "render")
  /\ UNCHANGED <<keyed, scan, returned>>

\* _shape_write: commit, unless an object was asked for and there is not one.
Settle(r) ==
  /\ pc[r] = "settle"
  /\ pend' = [pend EXCEPT ![r] = Nothing]
  /\ IF Single(Ask(r)) /\ Cardinality(DOMAIN pend[r]) # 1
     THEN Answer(r, "mismatch") /\ UNCHANGED <<table, did>>
     ELSE /\ table' = [k \in Keys |-> IF k \in DOMAIN pend[r] THEN pend[r][k] ELSE table[k]]
          /\ did' = [did EXCEPT ![r].wrote = pend[r]]
          /\ Go(r, "render")
  /\ UNCHANGED <<keyed, scan, returned>>

\* The answer is made after the commit, and may fail then.
Render(r) == pc[r] = "render" /\ Answer(r, Rendered(returned[r])) /\ UNCHANGED tableVars

TableStep(r) ==
  \/ TableBody(r) \/ Check(r) \/ CountRows(r) \/ SelectRows(r)
  \/ Scan(r) \/ Write(r) \/ Settle(r) \/ Render(r)

----------------------------------------------------------------------------
(***************************************************************************)
(* What a client may rely on.  `means` is what it means by its call:       *)
(*   sense    the API has an answer to it at all                           *)
(*   clauses, order, limit (Absent: none), offset    the rows it is about  *)
(***************************************************************************)

Meant(r, t) == Matching(Ask(r).means.clauses, t)
MeantCuts(r, t) ==
  LET m == Ask(r).means
      limit == IF m.limit = Absent THEN NoLimit ELSE m.limit
  IN  Cuts(Meant(r, t), m.order, IF Ask(r).op = "get" /\ limit > MaxRows THEN MaxRows ELSE limit,
           IF m.offset = Absent THEN 0 ELSE m.offset)

\* A window of rows that nobody touched is the one asked for; otherwise only
\* rows of the scan are written, and never more than the limit.
WroteAsMeant(r) ==
  LET m == Ask(r).means
      D == did[r]
      W == DOMAIN D.wrote
  IN  IF m.limit = Absent /\ m.offset = Absent
      THEN /\ W \subseteq Meant(r, D.found)
           /\ Meant(r, D.scanned) \cap Meant(r, D.found) \subseteq W
      ELSE /\ W \subseteq Meant(r, D.scanned)
           /\ m.limit # Absent => Cardinality(W) <= m.limit
           /\ D.scanned = D.found => W \in MeantCuts(r, D.found)

\* A page of the rows asked for; the count taken with it is theirs.
ReadAsMeant(r) ==
  LET D == did[r] IN
  /\ D.read \in MeantCuts(r, D.found)
  /\ D.count # -1 => D.count = Cardinality(Meant(r, D.scanned))

\* The rows a call reads, changes or deletes are the rows its author meant,
\* whatever its values contain and whoever else writes meanwhile; and a call
\* that means nothing (a misspelt operator, an unknown column, a filter that
\* the server takes for a flag, a window beyond the maximum) is never
\* answered as if it had matched no rows (query.py:206, rest.py:124, 381).
AsAsked ==
  \A r \in Requests : IsTable(r) /\ Ask(r).op # "insert" =>
    /\ reply[r] = "ok" => Ask(r).means.sense
    /\ reply[r] = "ok" /\ Ask(r).op = "get" => ReadAsMeant(r)
    /\ Ask(r).op # "get" /\ (reply[r] = "ok" \/ did[r].wrote # Nothing) => WroteAsMeant(r)

\* The rows a request has committed, as a call that returns them does.
Wrote(r) == Returning(did[r].wrote, did[r].found)

\* A call that is refused has changed nothing, and one that must change a single
\* row has changed one or none (rest.py:556, "an errored request never persists").
\* The exception to those words is a failure of the server after the commit: the
\* change is there, whole, and a row of it that the call returns has no form in
\* JSON (rest.py:562); and such a row is never answered as if it had one.
RefusedNeverPersists ==
  \A r \in Requests : IsTable(r) =>
    /\ reply[r] \notin {"none", "ok", "lost"} =>
         \/ did[r].wrote = Nothing
         \/ reply[r] = "internal error" /\ Ask(r).returning /\ Rendered(Wrote(r)) # "ok"
    /\ reply[r] = "ok" /\ Ask(r).returning => Rendered(Wrote(r)) = "ok"
    /\ Single(Ask(r)) => Cardinality(DOMAIN did[r].wrote) <= 1

\* An insert changes a row that is there only as a merge, and of it only the
\* columns that its item, or else ?columns=, names (rest.py:262).
UpsertKeepsTheRest ==
  \A r \in Requests : IsTable(r) /\ Ask(r).op = "insert" =>
    \A k \in DOMAIN did[r].wrote :
      LET old == did[r].found[k]
          new == did[r].wrote[k]
          items == {i \in DOMAIN Ask(r).body : Ask(r).body[i]["id"] = <<Digits[k]>>}
          given(c) == {Ask(r).body[i][c] : i \in {j \in items : c \in DOMAIN Ask(r).body[j]}}
      IN  IF old = NoRow THEN \A c \in {"a", "b"} : new[c] \in given(c) \cup {Default}
          ELSE /\ Ask(r).resolution = "merge"
               /\ \A c \in {"a", "b"} : new[c] # old[c] =>
                    \/ new[c] \in given(c)
                    \/ Ask(r).sent.columns # <<>>
=============================================================================
