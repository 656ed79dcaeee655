---------------------------- MODULE Resolve_proof ----------------------------
(* Proofs about Resolve for any segments, patterns, paths and rows, and any   *)
(* number of edits while a request is under way.                              *)
EXTENDS Resolve, TLAPS, SequenceTheorems

USE DEF request

\* The longer prefixes were looked up, and each had a row then that is no match.
Exhausted(k) ==
  \A n \in k + 1 .. Len(path) : Prefix(n) \in Patterns =>
    \E row \in versions[Prefix(n)] : Skipped(row, Rest(n))

\* The longest prefix with a row to match had this one then.
Direct ==
  /\ tried \in 1 .. Len(path)
  /\ Exhausted(tried)
  /\ match.pattern = Prefix(tried) /\ match.rest = Rest(tried)
  /\ ~Skipped(match.row, match.rest)

\* No prefix had, but a pattern with a placeholder whose base leads the path.
Legacy ==
  /\ Exhausted(0)
  /\ match.row.kind \in Dynamic
  /\ Base(match.pattern) # <<>> /\ IsPrefix(Base(match.pattern), path)
  /\ match.rest = Stripped(Rest(Len(Base(match.pattern))))

Matched ==
  /\ match.pattern \in Patterns
  /\ match.row \in versions[match.pattern]
  /\ Direct \/ Legacy

\* Neither was there.
Unmatched ==
  /\ Exhausted(0)
  /\ \E e \in Snapshots : \A p \in Patterns : ~Leads(e, p, path)

\* What the answer says of the match.
Judged ==
  /\ answer.pattern = match.pattern
  /\ answer.outcome = Outcome(match.row, match.pattern, match.rest, caller)
  /\ answer.outcome = "redirect" => answer.values = Substituted(match.row, match.rest)

Missed == answer.outcome = "not_found" \/ (answer.outcome = "upstream" /\ browser)

Stored ==
  /\ path \in Paths /\ tried \in 0 .. Len(path)
  /\ versions = [p \in Patterns |-> versions[p]]
  /\ db \in [Patterns -> Rows \cup {None}]
  /\ \A p \in Patterns : db[p] \in versions[p]

Reached ==
  /\ step \in {"looking", "asking", "judging", "counting", "done"}
  /\ step = "looking" => Exhausted(tried) /\ answer = NotFound
  /\ step = "asking" => Unmatched /\ answer = NotFound /\ browser
  /\ step = "judging" => Matched
  /\ step = "counting" => Matched /\ Judged
  /\ step = "done" => (Matched /\ Judged) \/ (Unmatched /\ Missed)

IInv == Stored /\ Reached

----------------------------------------------------------------------------

\* A prefix of a path is what its length says.
LEMMA PrefixIs ==
  ASSUME NEW t \in Seq(Segment), NEW p \in Seq(Segment), IsPrefix(p, t)
  PROVE  Len(p) \in 0 .. Len(t) /\ p = SubSeq(t, 1, Len(p))
<1>1. Len(p) \in Nat /\ Len(t) \in Nat
  BY LenProperties
<1>2. SubSeq(p, 1, Len(p)) = p
  BY SubSeqFull
<1> QED
  BY <1>1, <1>2 DEF IsPrefix

LEMMA CutIs ==
  ASSUME NEW t \in Seq(Segment), NEW k \in 0 .. Len(t)
  PROVE  /\ SubSeq(t, 1, k) \in Seq(Segment) /\ Len(SubSeq(t, 1, k)) = k
         /\ IsPrefix(SubSeq(t, 1, k), t)
<1>1. Len(t) \in Nat /\ \A i \in 1 .. k : t[i] \in Segment
  BY LenProperties
<1>2. SubSeq(t, 1, k) \in Seq(Segment) /\ Len(SubSeq(t, 1, k)) = k
  BY <1>1, SubSeqProperties
<1>3. SubSeq(SubSeq(t, 1, k), 1, k) = SubSeq(t, 1, k)
  BY <1>2, SubSeqFull
<1> QED
  BY <1>1, <1>2, <1>3 DEF IsPrefix

\* Nothing is left of a path exactly at its end.
LEMMA RestIs ==
  ASSUME NEW t \in Seq(Segment), NEW k \in 0 .. Len(t)
  PROVE  /\ SubSeq(t, k + 1, Len(t)) = <<>> <=> k = Len(t)
         /\ SubSeq(t, 1, Len(t)) = t
<1>1. Len(t) \in Nat /\ \A i \in k + 1 .. Len(t) : t[i] \in Segment
  BY LenProperties
<1>2. Len(SubSeq(t, k + 1, Len(t))) = Len(t) - k
  BY <1>1, SubSeqProperties
<1>3. k = Len(t) => SubSeq(t, k + 1, Len(t)) = <<>>
  BY <1>1, SubSeqEmpty
<1>4. SubSeq(t, k + 1, Len(t)) = <<>> => k = Len(t)
  <2>1. PICK u : u = SubSeq(t, k + 1, Len(t))
    OBVIOUS
  <2>2. u = <<>> => Len(u) = 0
    OBVIOUS
  <2> QED
    BY <1>1, <1>2, <2>1, <2>2
<1>5. SubSeq(t, 1, Len(t)) = t
  BY SubSeqFull
<1> QED
  BY <1>3, <1>4, <1>5

\* A snapshot in which no prefix longer than k matches, like f elsewhere.
LEMMA SkippingSnapshot ==
  ASSUME Stored, NEW k \in 0 .. Len(path), Exhausted(k), NEW f \in Snapshots
  PROVE  \E d \in Snapshots :
           /\ \A p \in Applies(d, path) : Len(p) <= k
           /\ \A p \in Patterns : (IsPrefix(p, path) => Len(p) <= k) => d[p] = f[p]
<1>1. path \in Seq(Segment) /\ Patterns \subseteq Seq(Segment) /\ Len(path) \in Nat
  BY PathAssumption, LenProperties DEF Stored
<1> DEFINE skips(p) == {row \in versions[p] : Skipped(row, SubSeq(path, Len(p) + 1, Len(path)))}
           Longer == {p \in Patterns : IsPrefix(p, path) /\ ~ (Len(p) <= k)}
           d == [p \in Patterns |-> IF p \in Longer THEN CHOOSE row \in skips(p) : TRUE ELSE f[p]]
<1>2. ASSUME NEW p \in Longer PROVE d[p] \in skips(p)
  <2>1. Len(p) \in 0 .. Len(path) /\ p = Prefix(Len(p))
    BY <1>1, PrefixIs DEF Prefix
  <2>2. Len(p) \in k + 1 .. Len(path)
    BY <1>1, <2>1
  <2>3. \E row \in versions[p] : Skipped(row, Rest(Len(p)))
    BY <2>1, <2>2 DEF Exhausted
  <2>4. skips(p) # {}
    BY <2>3 DEF Rest
  <2> QED
    BY <2>4
<1>3. f \in [Patterns -> UNION {versions[p] : p \in Patterns}] /\ \A p \in Patterns : f[p] \in versions[p]
  BY DEF Snapshots
<1>4. \A p \in Patterns : d[p] \in versions[p]
  BY <1>2, <1>3
<1>5. d \in Snapshots
  BY <1>4 DEF Snapshots
<1>6. ASSUME NEW p \in Applies(d, path) PROVE Len(p) <= k
  <2> SUFFICES ASSUME ~ (Len(p) <= k) PROVE FALSE
    OBVIOUS
  <2>1. p \in Longer /\ d[p] # None /\ (d[p].kind \in Exact => p = path)
    BY DEF Applies
  <2>2. d[p] \in skips(p)
    BY <1>2, <2>1
  <2>3. d[p].kind \in Exact /\ SubSeq(path, Len(p) + 1, Len(path)) # <<>>
    BY <2>1, <2>2 DEF Skipped
  <2>4. p = path
    BY <2>1, <2>3
  <2>5. Len(path) \in 0 .. Len(path)
    BY <1>1
  <2> QED
    BY <1>1, <2>3, <2>4, <2>5, RestIs
<1>7. \A p \in Patterns : (IsPrefix(p, path) => Len(p) <= k) => d[p] = f[p]
  OBVIOUS
<1> QED
  BY <1>5, <1>6, <1>7

\* A snapshot that has one given version.
LEMMA VersionSnapshot ==
  ASSUME Stored, NEW p \in Patterns, NEW row \in versions[p]
  PROVE  \E f \in Snapshots : f[p] = row
<1> DEFINE f == [q \in Patterns |-> IF q = p THEN row ELSE db[q]]
<1>1. \A q \in Patterns : f[q] \in versions[q]
  BY DEF Stored
<1>2. f \in Snapshots
  BY <1>1 DEF Snapshots
<1> QED
  BY <1>2

\* The match is one that the definition gives for d and e.
Given(d, e) ==
  \E m \in Matches(d, e, path) :
    m.pattern = match.pattern /\ m.row = match.row /\ m.rest = match.rest

LEMMA DirectJustified ==
  ASSUME Stored, Matched, Direct
  PROVE  \E d \in Snapshots : Given(d, d)
<1>1. path \in Seq(Segment) /\ Patterns \subseteq Seq(Segment) /\ tried \in 0 .. Len(path)
  BY PathAssumption DEF Stored
<1>2. /\ match.pattern = SubSeq(path, 1, tried) /\ Len(match.pattern) = tried
      /\ IsPrefix(match.pattern, path)
  BY <1>1, CutIs DEF Direct, Prefix
<1>3. PICK f \in Snapshots : f[match.pattern] = match.row
  BY VersionSnapshot DEF Matched
<1>4. PICK d \in Snapshots :
        /\ \A p \in Applies(d, path) : Len(p) <= tried
        /\ \A p \in Patterns : (IsPrefix(p, path) => Len(p) <= tried) => d[p] = f[p]
  BY <1>1, SkippingSnapshot DEF Direct
<1>5. d[match.pattern] = match.row
  <2>1. match.pattern \in Patterns /\ Len(match.pattern) <= tried
    BY <1>1, <1>2 DEF Matched
  <2> QED
    BY <2>1, <1>3, <1>4
<1>6. match.row # None /\ (match.row.kind \in Exact => match.rest = <<>>)
  BY DEF Direct, Skipped
<1>7. match.rest = <<>> => match.pattern = path
  BY <1>1, <1>2, RestIs DEF Direct, Rest
<1>8. match.pattern \in Applies(d, path)
  BY <1>2, <1>5, <1>6, <1>7 DEF Applies, Matched
<1>9. \A o \in Applies(d, path) : Len(o) <= Len(match.pattern)
  BY <1>2, <1>4
<1>10. [pattern |-> match.pattern, row |-> d[match.pattern],
        rest |-> SubSeq(path, Len(match.pattern) + 1, Len(path))] \in Matches(d, d, path)
  BY <1>8, <1>9 DEF Matches
<1>11. SubSeq(path, Len(match.pattern) + 1, Len(path)) = match.rest
  BY <1>2 DEF Direct, Rest
<1> QED
  BY <1>4, <1>5, <1>10, <1>11 DEF Given

LEMMA NoneApplies ==
  ASSUME Stored, Exhausted(0), NEW f \in Snapshots
  PROVE  \E d \in Snapshots : Applies(d, path) = {}
<1>1. path \in Seq(Segment) /\ Len(path) \in Nat /\ 0 \in 0 .. Len(path)
  BY PathAssumption, LenProperties DEF Stored
<1>2. PICK d \in Snapshots : \A p \in Applies(d, path) : Len(p) <= 0
  BY <1>1, SkippingSnapshot
<1>3. \A p \in Patterns : p \in Seq(Segment) /\ p # <<>>
  BY PathAssumption
<1>4. \A p \in Patterns : ~ (Len(p) <= 0)
  BY <1>3, EmptySeq
<1> QED
  BY <1>2, <1>4 DEF Applies

LEMMA LegacyJustified ==
  ASSUME Stored, Matched, Legacy
  PROVE  \E d, e \in Snapshots : Given(d, e)
<1>1. PICK e \in Snapshots : e[match.pattern] = match.row
  BY VersionSnapshot DEF Matched
<1>2. PICK d \in Snapshots : Applies(d, path) = {}
  BY <1>1, NoneApplies DEF Legacy
<1>3. Leads(e, match.pattern, path)
  BY <1>1 DEF Legacy, Leads
<1>4. [pattern |-> match.pattern, row |-> e[match.pattern],
       rest |-> Stripped(SubSeq(path, Len(Base(match.pattern)) + 1, Len(path)))] \in Matches(d, e, path)
  BY <1>2, <1>3 DEF Matches, Matched
<1>5. Stripped(SubSeq(path, Len(Base(match.pattern)) + 1, Len(path))) = match.rest
  BY DEF Legacy, Rest
<1> QED
  BY <1>1, <1>4, <1>5 DEF Given

LEMMA UnmatchedJustified ==
  ASSUME Stored, Unmatched
  PROVE  \E d, e \in Snapshots : Matches(d, e, path) = {}
<1>1. PICK e \in Snapshots : \A p \in Patterns : ~Leads(e, p, path)
  BY DEF Unmatched
<1>2. PICK d \in Snapshots : Applies(d, path) = {}
  BY <1>1, NoneApplies DEF Unmatched
<1> QED
  BY <1>1, <1>2 DEF Matches

LEMMA Justified == IInv => AnswerIsJustified
<1> SUFFICES ASSUME IInv, step = "done"
             PROVE  \E d, e \in Snapshots :
                      IF Matches(d, e, path) = {}
                        THEN answer.outcome = "not_found" \/ (answer.outcome = "upstream" /\ browser)
                        ELSE \E m \in Matches(d, e, path) :
                               /\ answer.pattern = m.pattern
                               /\ answer.outcome = Outcome(m.row, m.pattern, m.rest, caller)
                               /\ answer.outcome = "redirect" => answer.values = Substituted(m.row, m.rest)
  BY DEF AnswerIsJustified
<1>1. CASE Matched /\ Judged
  <2>1. PICK d \in Snapshots, e \in Snapshots : Given(d, e)
    BY <1>1, DirectJustified, LegacyJustified DEF IInv, Matched
  <2>2. PICK m \in Matches(d, e, path) :
          m.pattern = match.pattern /\ m.row = match.row /\ m.rest = match.rest
    BY <2>1 DEF Given
  <2>3. /\ answer.pattern = m.pattern
        /\ answer.outcome = Outcome(m.row, m.pattern, m.rest, caller)
        /\ answer.outcome = "redirect" => answer.values = Substituted(m.row, m.rest)
    BY <1>1, <2>2 DEF Judged
  <2> QED
    BY <2>2, <2>3
<1>2. CASE Unmatched /\ Missed
  BY <1>2, UnmatchedJustified DEF IInv, Missed
<1> QED
  BY <1>1, <1>2 DEF IInv, Reached

----------------------------------------------------------------------------

LEMMA InitInv == Init => IInv
<1> SUFFICES ASSUME Init PROVE IInv
  OBVIOUS
<1>1. Len(path) \in Nat
  BY PathAssumption, LenProperties DEF Init
<1>2. Stored
  BY <1>1 DEF Init, Stored
<1>3. Exhausted(tried)
  BY <1>1 DEF Init, Exhausted
<1> QED
  BY <1>2, <1>3 DEF Init, IInv, Reached

LEMMA LookUpKeeps ==
  ASSUME IInv, LookUp
  PROVE  IInv'
<1>1. /\ UNCHANGED <<db, path, caller, browser, answer, versions>>
      /\ step = "looking" /\ tried > 0
  BY DEF LookUp
<1>2. /\ tried \in 1 .. Len(path) /\ Exhausted(tried) /\ answer = NotFound
      /\ Stored
  BY <1>1 DEF IInv, Stored, Reached
<1>3. Prefix(tried) \in Patterns => Found(db, Prefix(tried)) \in versions[Prefix(tried)]
  BY <1>2 DEF Stored, Found
<1>4. CASE Skipped(Found(db, Prefix(tried)), Rest(tried))
  <2>1. PICK k : k = tried - 1
    OBVIOUS
  <2>2. tried' = k /\ UNCHANGED <<step, match>>
    BY <1>4, <2>1 DEF LookUp
  <2>3. Len(path) \in Nat
    BY <1>2, PathAssumption, LenProperties DEF Stored
  <2>4. k \in 0 .. Len(path) /\ \A n \in k + 1 .. Len(path) : n = tried \/ n \in tried + 1 .. Len(path)
    BY <1>2, <2>1, <2>3
  <2>5. Exhausted(k)
    BY <1>2, <1>3, <1>4, <2>4 DEF Exhausted
  <2>6. Exhausted(k)'
    BY <1>1, <2>5 DEF Exhausted, Prefix, Rest
  <2>7. Stored'
    BY <1>1, <1>2, <2>2, <2>4 DEF Stored
  <2>8. step' = "looking" /\ Exhausted(tried)' /\ answer' = NotFound
    BY <1>1, <1>2, <2>2, <2>6
  <2> QED
    BY <2>7, <2>8 DEF IInv, Reached
<1>5. CASE ~ Skipped(Found(db, Prefix(tried)), Rest(tried))
  <2>1. /\ step' = "judging" /\ tried' = tried
        /\ match'.pattern = Prefix(tried) /\ match'.row = Found(db, Prefix(tried)) /\ match'.rest = Rest(tried)
    BY <1>5 DEF LookUp
  <2>2. Prefix(tried) \in Patterns
    BY <1>5 DEF Found, Skipped
  <2>3. Direct' /\ Matched'
    BY <1>1, <1>2, <1>3, <1>5, <2>1, <2>2 DEF Direct, Matched, Exhausted, Prefix, Rest
  <2> QED
    BY <1>1, <1>2, <2>1, <2>3 DEF IInv, Stored, Reached
<1> QED
  BY <1>4, <1>5

LEMMA ScanKeeps ==
  ASSUME IInv, Scan
  PROVE  IInv'
<1>1. /\ UNCHANGED <<db, path, caller, browser, answer, versions, tried>>
      /\ step = "looking" /\ tried = 0
  BY DEF Scan
<1>2. Exhausted(0) /\ answer = NotFound /\ Stored /\ Stored'
  BY <1>1 DEF IInv, Stored, Reached
<1>3. CASE \E p \in Patterns :
          /\ Leads(db, p, path)
          /\ step' = "judging"
          /\ match' = [pattern |-> p, row |-> db[p], rest |-> Stripped(Rest(Len(Base(p))))]
  <2>1. Matched'
    BY <1>1, <1>2, <1>3 DEF Matched, Legacy, Leads, Exhausted, Prefix, Rest, Stored
  <2> QED
    BY <1>2, <1>3, <2>1 DEF IInv, Reached
<1>4. CASE /\ \A p \in Patterns : ~Leads(db, p, path)
           /\ step' = IF browser THEN "asking" ELSE "done"
           /\ UNCHANGED match
  <2>1. db \in Snapshots
    BY <1>2 DEF Snapshots, Stored
  <2>2. Unmatched'
    BY <1>1, <1>2, <1>4, <2>1 DEF Unmatched, Exhausted, Prefix, Rest, Snapshots
  <2>3. Missed'
    BY <1>1, <1>2 DEF Missed, NotFound
  <2> QED
    BY <1>1, <1>2, <1>4, <2>2, <2>3 DEF IInv, Reached
<1> QED
  BY <1>3, <1>4 DEF Scan

\* What a request knows stays true while rows change.
LEMMA EditKeeps ==
  ASSUME IInv, NEW p \in Patterns, NEW row \in Rows \cup {None}, Edit(p, row)
  PROVE  IInv'
<1>1. /\ UNCHANGED <<path, caller, browser, step, tried, match, answer>>
      /\ db' = [db EXCEPT ![p] = row]
      /\ versions' = [versions EXCEPT ![p] = @ \cup {row}]
  BY DEF Edit
<1>2. Stored
  BY DEF IInv
<1>3. /\ versions' = [q \in Patterns |-> versions'[q]]
      /\ \A q \in Patterns : versions[q] \subseteq versions'[q]
      /\ row \in versions'[p]
  BY <1>1, <1>2 DEF Stored
<1>4. Stored'
  BY <1>1, <1>2, <1>3 DEF Stored
<1>5. \A k : Exhausted(k) => Exhausted(k)'
  BY <1>1, <1>3 DEF Exhausted, Prefix, Rest
<1>6. Snapshots \subseteq Snapshots'
  BY <1>3 DEF Snapshots
<1>7. Matched => Matched'
  BY <1>1, <1>3, <1>5 DEF Matched, Direct, Legacy, Prefix, Rest
<1>8. Unmatched => Unmatched'
  BY <1>1, <1>5, <1>6 DEF Unmatched
<1>9. Reached'
  BY <1>1, <1>5, <1>7, <1>8 DEF IInv, Reached, Judged, Missed
<1> QED
  BY <1>4, <1>9 DEF IInv

\* While no row is looked up or changed, what was found stands.
LEMMA FindingKeeps ==
  ASSUME IInv, UNCHANGED <<db, path, caller, browser, tried, match, versions>>
  PROVE  /\ Stored' /\ \A k : Exhausted(k) => Exhausted(k)'
         /\ Matched => Matched'
         /\ Unmatched => Unmatched'
<1>1. Stored'
  BY DEF IInv, Stored
<1>2. \A k : Exhausted(k) => Exhausted(k)'
  BY DEF Exhausted, Prefix, Rest
<1>3. Matched => Matched'
  BY <1>2 DEF Matched, Direct, Legacy, Prefix, Rest
<1>4. Unmatched => Unmatched'
  BY <1>2 DEF Unmatched, Snapshots
<1> QED
  BY <1>1, <1>2, <1>3, <1>4

\* Steps after the lookups read the match only.
LEMMA AnswerKeeps ==
  ASSUME IInv, Judge \/ Count \/ AskUpstreams
  PROVE  IInv'
<1>1. UNCHANGED <<db, path, caller, browser, tried, match, versions>>
  BY DEF Judge, Count, AskUpstreams
<1>2. Stored' /\ (Matched => Matched') /\ (Unmatched => Unmatched')
  BY <1>1, FindingKeeps
<1>3. CASE Judge
  <2>1. Judged' /\ step = "judging" /\ step' \in {"counting", "done"}
    BY <1>1, <1>3 DEF Judge, Judged
  <2> QED
    BY <2>1, <1>2 DEF IInv, Reached
<1>4. CASE Count
  <2>1. UNCHANGED answer /\ step = "counting" /\ step' = "done"
    BY <1>4 DEF Count
  <2>2. Judged => Judged'
    BY <1>1, <2>1 DEF Judged
  <2> QED
    BY <2>1, <2>2, <1>2 DEF IInv, Reached
<1>5. CASE AskUpstreams
  <2>1. step = "asking" /\ step' = "done" /\ answer' \in {NotFound, [NotFound EXCEPT !.outcome = "upstream"]}
    BY <1>5 DEF AskUpstreams
  <2>2. answer'.outcome \in {"not_found", "upstream"}
    BY <2>1 DEF NotFound
  <2>3. Missed'
    BY <1>1, <2>1, <2>2 DEF IInv, Reached, Missed
  <2> QED
    BY <2>1, <2>3, <1>2 DEF IInv, Reached
<1> QED
  BY <1>3, <1>4, <1>5

LEMMA NextInv == IInv /\ [Next]_vars => IInv'
<1> SUFFICES ASSUME IInv, [Next]_vars PROVE IInv'
  OBVIOUS
<1>1. CASE UNCHANGED vars
  <2>1. UNCHANGED <<db, path, caller, browser, tried, match, versions>> /\ UNCHANGED <<step, answer>>
    BY <1>1 DEF vars
  <2>2. (Judged => Judged') /\ (Missed => Missed')
    BY <2>1 DEF Judged, Missed
  <2> QED
    BY <2>1, <2>2, FindingKeeps DEF IInv, Reached
<1>2. CASE Next
  BY <1>2, LookUpKeeps, ScanKeeps, EditKeeps, AnswerKeeps DEF Next
<1> QED
  BY <1>1, <1>2

\* A request is answered as the definition of a match says for rows that stood while
\* it ran, whatever is edited between its lookups.
THEOREM AnswerSafety == Spec => []AnswerIsJustified
BY InitInv, NextInv, Justified, PTL DEF Spec

=============================================================================
