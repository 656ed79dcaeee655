------------------------------- MODULE Resolve -------------------------------
(***************************************************************************)
(* Resolving a path: modules/shortcuts/service.py and routers/resolve.py.  *)
(* The prefixes of the path are looked up one by one, the longest first,   *)
(* while edits commit; each lookup finds the row of that moment (how stale *)
(* a cached one may be is the matter of LookupCache).                      *)
(***************************************************************************)
EXTENDS Integers, Sequences, SequencesExt

CONSTANTS Segment,      \* what stands between two slashes
          Empty,        \* nothing: the path has two slashes there
          Holes, Stem,  \* segments with a placeholder in them, of v2 patterns, and the
                        \* text before it
          Patterns,     \* patterns with a row at some time: sequences of segments
          Paths,        \* paths that are asked for, lower case, no slash at the ends
          Rows,         \* what a row may hold
          Required,     \* table user_params: the required names, by pattern
          MaxEdits

\* A row's target is a sequence of <<bracket, name>>, the text between left out but for
\* what it makes of the destination: row.unsafe has the values that leave it no http
\* address. Its owner is an email, else the address it was created from, else nobody.
None == [kind |-> "none"]
Dynamic == {"dynamic", "user-dynamic"}
Exact == {"static", "upstream"}
Owner == {"email", "address", "nobody"}
Caller == {"anonymous", "member", "admin"} \cup (Owner \ {"nobody"})

ASSUME SegmentAssumption ==
  Empty \in Segment /\ Holes \subseteq Segment /\ Stem \in [Holes -> Segment \ Holes]
ASSUME PathAssumption == Patterns \cup Paths \subseteq Seq(Segment) \ {<<>>}
ASSUME RowAssumption == \A w \in Rows : w.kind \in Dynamic \cup Exact
ASSUME EditAssumption == MaxEdits \in Nat

VARIABLES
  db,       \* what a lookup of a pattern finds: a shortcut, else a cached upstream row
  access,   \* access_count, by pattern
  path, caller, browser,  \* the request
  step,     \* where it stands
  tried,    \* the length of the next prefix to look up
  match,    \* the pattern that matched, its row and the segments left
  answer,
  edits

VARIABLE versions   \* history: the rows a pattern had since the request came in

request == <<path, caller, browser>>
vars == <<db, access, request, step, tried, match, answer, edits, versions>>

NoMatch == [pattern |-> <<>>, row |-> None, rest |-> <<>>]
NotFound == [outcome |-> "not_found", pattern |-> <<>>, values |-> <<>>]

Init ==
  /\ db \in [Patterns -> Rows \cup {None}]
  /\ access = [p \in Patterns |-> 0]
  /\ path \in Paths /\ caller \in Caller /\ browser \in BOOLEAN
  /\ step = "looking"
  /\ tried = Len(path)
  /\ match = NoMatch /\ answer = NotFound
  /\ edits = 0
  /\ versions = [p \in Patterns |-> {db[p]}]

----------------------------------------------------------------------------

Prefix(n) == SubSeq(path, 1, n)
Rest(n) == SubSeq(path, n + 1, Len(path))
Found(d, p) == IF p \in Patterns THEN d[p] ELSE None

\* Mutant: a static row matches any longer path.
NeverSkipped(row, rest) == row = None

\* Nothing there, or a row that wants the whole path: on to a shorter prefix.
Skipped(row, rest) == row = None \/ (row.kind \in Exact /\ rest # <<>>)

LookUp ==
  LET row == Found(db, Prefix(tried)) IN
  /\ step = "looking"
  /\ tried > 0
  /\ IF Skipped(row, Rest(tried))
       THEN tried' = tried - 1 /\ UNCHANGED <<step, match>>
       ELSE /\ step' = "judging"
            /\ match' = [pattern |-> Prefix(tried), row |-> row, rest |-> Rest(tried)]
            /\ UNCHANGED tried
  /\ UNCHANGED <<db, access, request, answer, edits, versions>>

\* Slashes between the base and the tail are stripped.
Stripped(s) == IF \A i \in DOMAIN s : s[i] = Empty THEN <<>>
               ELSE SubSeq(s, SelectInSeq(s, LAMBDA x : x # Empty), Len(s))

\* A pattern up to its first placeholder, cut inside the segment that holds it;
\* the slashes at its end go.
Base(p) ==
  LET first == SelectInSeq(p, LAMBDA s : s \in Holes)
  IN  IF first = 0 THEN p ELSE Reverse(Stripped(<<Stem[p[first]]>> \o Reverse(SubSeq(p, 1, first - 1))))

\* Does the base of a dynamic row lead the path?
Leads(d, p, t) == d[p].kind \in Dynamic /\ Base(p) # <<>> /\ IsPrefix(Base(p), t)

\* The legacy fallback takes any such row: they come in no order. Else it is a 404;
\* a browser has the upstreams asked first.
Scan ==
  /\ step = "looking"
  /\ tried = 0
  /\ \/ \E p \in Patterns :
          /\ Leads(db, p, path)
          /\ step' = "judging"
          /\ match' = [pattern |-> p, row |-> db[p], rest |-> Stripped(Rest(Len(Base(p))))]
     \/ /\ \A p \in Patterns : ~Leads(db, p, path)
        /\ step' = IF browser THEN "asking" ELSE "done"
        /\ UNCHANGED match
  /\ UNCHANGED <<db, access, request, tried, answer, edits, versions>>

\* _browser_missing_response: a live hit redirects, else the page says 404.
AskUpstreams ==
  /\ step = "asking"
  /\ answer' \in {NotFound, [NotFound EXCEPT !.outcome = "upstream"]}
  /\ step' = "done"
  /\ UNCHANGED <<db, access, request, tried, match, edits, versions>>

----------------------------------------------------------------------------

\* _visible: site admins; for a private row its owner, or anybody if it has none; for
\* one of a team its members and the owner, who there is known by email only.
Visible(row, who) ==
  \/ row.visibility = "public"
  \/ who = "admin"
  \/ row.visibility = "private" /\ row.owner \in {who, "nobody"}
  \/ row.visibility = "team" /\ who = "member"
  \/ row.visibility = "team" /\ who = "email" /\ row.owner = who

\* Names in square brackets first, then those in curly ones, each name once.
Placeholders(row) ==
  LET Of(b) == SelectSeq(row.target, LAMBDA t : t[1] = b)
  IN  FoldLeft(LAMBDA s, t : IF Contains(s, t[2]) THEN s ELSE Append(s, t[2]), <<>>, Of("[") \o Of("{"))

\* Positional: what is left over is dropped, a name without a segment is blank.
Value(rest, i) == IF i \in DOMAIN rest THEN rest[i] ELSE Empty
Values(row, rest) == [i \in DOMAIN Placeholders(row) |-> Value(rest, i)]

Needed(row, p) ==
  {i \in DOMAIN Placeholders(row) :
     row.kind = "user-dynamic" => p \in DOMAIN Required /\ Placeholders(row)[i] \in Required[p]}

Missing(row, p, rest) == \E i \in Needed(row, p) : Value(rest, i) = Empty

Substituted(row, rest) == IF row.kind \in Dynamic THEN Values(row, rest) ELSE <<>>

Safe(row, rest) == Substituted(row, rest) \notin row.unsafe

\* The order of the checks decides what a caller learns. The destination is judged
\* with the values in it.
Outcome(row, p, rest, who) ==
  IF row.kind = "upstream" THEN (IF Safe(row, rest) THEN "redirect" ELSE "unsafe")
  ELSE IF row.expired THEN "gone"
  ELSE IF ~Visible(row, who) THEN "forbidden"
  ELSE IF row.kind \in Dynamic /\ Missing(row, p, rest) THEN "need_params"
  ELSE IF Safe(row, rest) THEN "redirect" ELSE "unsafe"

Judge ==
  LET outcome == Outcome(match.row, match.pattern, match.rest, caller) IN
  /\ step = "judging"
  /\ answer' = [outcome |-> outcome, pattern |-> match.pattern,
                values |-> IF outcome = "redirect" THEN Substituted(match.row, match.rest) ELSE <<>>]
  /\ step' = IF outcome = "redirect" /\ match.row.kind # "upstream" THEN "counting" ELSE "done"
  /\ UNCHANGED <<db, access, request, tried, match, edits, versions>>

\* increment_access is one UPDATE; by now the row may be gone, or another.
Count ==
  /\ step = "counting"
  /\ access' = IF db[match.pattern].kind \in {"none", "upstream"} THEN access
               ELSE [access EXCEPT ![match.pattern] = @ + 1]
  /\ step' = "done"
  /\ UNCHANGED <<db, request, tried, match, answer, edits, versions>>

\* Somebody creates, changes or deletes a row.
Edit(p, row) ==
  /\ edits < MaxEdits
  /\ step # "done"
  /\ edits' = edits + 1
  /\ db' = [db EXCEPT ![p] = row]
  /\ versions' = [versions EXCEPT ![p] = @ \cup {row}]
  /\ UNCHANGED <<access, request, step, tried, match, answer>>

Next ==
  \/ LookUp \/ Scan \/ AskUpstreams \/ Judge \/ Count
  \/ \E p \in Patterns, row \in Rows \cup {None} : Edit(p, row)

Spec == Init /\ [][Next]_vars

----------------------------------------------------------------------------

\* The definition of a match: the longest pattern that leads the path, whole for a
\* static one; failing that, a pattern whose base does.
Applies(d, t) == {p \in Patterns : IsPrefix(p, t) /\ d[p] # None /\ (d[p].kind \in Exact => p = t)}

\* The scan reads the rows later than the lookups did: d for these, e for that.
Matches(d, e, t) ==
  IF Applies(d, t) # {}
    THEN {[pattern |-> p, row |-> d[p], rest |-> SubSeq(t, Len(p) + 1, Len(t))] :
            p \in {q \in Applies(d, t) : \A o \in Applies(d, t) : Len(o) <= Len(q)}}
    ELSE {[pattern |-> p, row |-> e[p], rest |-> Stripped(SubSeq(t, Len(Base(p)) + 1, Len(t)))] :
            p \in {q \in Patterns : Leads(e, q, t)}}

\* The versions one could have met.
Snapshots ==
  {d \in [Patterns -> UNION {versions[p] : p \in Patterns}] : \A p \in Patterns : d[p] \in versions[p]}

\* resolve answers as the definition does for rows that stood while it ran, also when
\* they were edited between its lookups; without edits that is the one snapshot.
AnswerIsJustified ==
  step = "done" =>
    \E d, e \in Snapshots :
      IF Matches(d, e, path) = {}
        THEN answer.outcome = "not_found" \/ (answer.outcome = "upstream" /\ browser)
        ELSE \E m \in Matches(d, e, path) :
               /\ answer.pattern = m.pattern
               /\ answer.outcome = Outcome(m.row, m.pattern, m.rest, caller)
               /\ answer.outcome = "redirect" => answer.values = Substituted(m.row, m.rest)

=============================================================================
