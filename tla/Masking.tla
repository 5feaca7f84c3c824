------------------------------ MODULE Masking ------------------------------
(***************************************************************************)
(* The masking of the code that the LLM agent shows to a provider          *)
(* (shared/masking.py), by Presidio and regular expressions, or by the     *)
(* latter alone where Presidio is not installed.                           *)
(*                                                                         *)
(* A text is a sequence of atoms, that is of records with a field `kind`:  *)
(*   code    a piece of code, by name; `person` if Presidio takes it for   *)
(*           something personal                                            *)
(*   secret  what the patterns of `labels` match by itself, as a key       *)
(*   open, close   the two ends of what the pattern `label` looks between, *)
(*           as the quotes in SECRET = "..."                               *)
(*   number  the number of a line, as the context extractor writes it      *)
(*   hole    a placeholder <<label_n>>                                     *)
(* Texts that have a placeholder before they are masked are left out, as   *)
(* are those where the number of a line breaks up a secret or an end.      *)
(***************************************************************************)
EXTENDS Ordering, SequencesExt

CONSTANTS
    Pattern,        \* SENSITIVE_PATTERNS: their labels, in order
    Recognised,     \* the labels for which Presidio has a recogniser, too
    Atom            \* what code is made of: all atoms but the placeholders

\* A secret is one for a pattern.  The recognisers are for patterns that look at
\* the secret itself and not at what is around it.
ASSUME MaskingAssumption ==
    /\ Pattern \in Seq(STRING) /\ "PERSON" \notin ToSet(Pattern)
    /\ \A a \in Atom :
         /\ a.kind \in {"code", "secret", "open", "close", "number"}
         /\ a.kind = "secret" => a.labels \cap ToSet(Pattern) # {}
         /\ a.kind = "open"   => a.label \notin Recognised

Hole(label, n) == [kind |-> "hole", label |-> label, n |-> n]
Holes(text)    == {k \in DOMAIN text : text[k].kind = "hole"}

-----------------------------------------------------------------------------
(* LegacyRegexMasker                                                       *)

\* re.finditer: [i, j] for each match of the pattern, or of its group.
Matched(text, label) ==
    {<<i, i>> : i \in {k \in DOMAIN text : text[k].kind = "secret" /\ label \in text[k].labels}}
    \cup {<<q[1] + 1, q[2] - 1>> : q \in
            {p \in (DOMAIN text) \X (DOMAIN text) :
               /\ text[p[1]] = [kind |-> "open", label |-> label]
               /\ text[p[2]] = [kind |-> "close", label |-> label]
               /\ p[2] > p[1] + 1
               /\ \A k \in (p[1] + 1)..(p[2] - 1) : text[k].kind \notin {"open", "close"}}}

\* No match of a pattern is left but those that have a placeholder in them.
NothingBare(text) ==
    \A n \in DOMAIN Pattern : \A p \in Matched(text, Pattern[n]) :
        \E k \in p[1]..p[2] : k \in Holes(text)

Put(st, span, label) ==
    LET hole == Hole(label, Len(st.map))
    IN  [text |-> SubSeq(st.text, 1, span[1] - 1) \o <<hole>>
                    \o SubSeq(st.text, span[2] + 1, Len(st.text)),
         map  |-> Append(st.map, [hole |-> hole, value |-> SubSeq(st.text, span[1], span[2])])]

\* Mutant of Replace: a match that has a placeholder in it is masked as well.
ReplaceAny(st, span, label) == Put(st, span, label)

\* A match that has a placeholder in it stays.
Replace(st, span, label) ==
    IF \E k \in span[1]..span[2] : k \in Holes(st.text) THEN st ELSE Put(st, span, label)

\* The matches of one pattern, from the last to the first.
ApplyPattern(st, label) ==
    LET spans == Matched(st.text, label)
        order == SortedBy(spans, [p \in spans |-> <<-p[1], -p[2]>>])
        after[n \in 0..Len(order)] ==
          IF n = 0 THEN st ELSE Replace(after[n - 1], order[n], label)
    IN  after[Len(order)]

\* One pattern after the other.
RegexMask(text) ==
    LET after[n \in 0..Len(Pattern)] ==
          IF n = 0 THEN [text |-> text, map |-> <<>>] ELSE ApplyPattern(after[n - 1], Pattern[n])
    IN  after[Len(Pattern)]

-----------------------------------------------------------------------------
(* PresidioMasker                                                          *)

\* AnalyzerEngine.analyze (external): everything that a recogniser added here
\* matches, under one of its labels, and what else it takes for personal.
Analyses(text) ==
    LET Known(i) == text[i].kind = "secret" /\ text[i].labels \cap Recognised # {}
        Labels(i) == IF Known(i) THEN text[i].labels \cap Recognised ELSE {"PERSON"}
        spans == {i \in DOMAIN text : Known(i) \/ (text[i].kind = "code" /\ text[i].person)}
    IN  {f \in [spans -> Recognised \cup {"PERSON"}] : \A i \in spans : f[i] \in Labels(i)}

\* From the last to the first: that is how they are numbered.
Covered(text, found) ==
    LET order == SortedBy(DOMAIN found, [i \in DOMAIN found |-> <<-i>>])
        HoleOf(k) == Hole(found[order[k]], k - 1)
    IN  [text |-> [i \in DOMAIN text |->
                     IF i \in DOMAIN found THEN HoleOf(CHOOSE k \in DOMAIN order : order[k] = i)
                     ELSE text[i]],
         map  |-> [k \in DOMAIN order |-> [hole |-> HoleOf(k), value |-> <<text[order[k]]>>]]]

\* {**a, **b}
MergeMaps(a, b) ==
    LET Later(k) == {m \in DOMAIN b : b[m].hole = a[k].hole}
        new == Ascending({m \in DOMAIN b : \A k \in DOMAIN a : a[k].hole # b[m].hole})
    IN  [k \in DOMAIN a |-> IF Later(k) = {} THEN a[k] ELSE b[CHOOSE m \in Later(k) : TRUE]]
          \o [k \in DOMAIN new |-> b[new[k]]]

\* What Presidio leaves is left to the patterns, which count from 0 again.
PresidioMask(text, found) ==
    LET covered == Covered(text, found)
        rest    == RegexMask(covered.text)
    IN  [text |-> rest.text, map |-> MergeMaps(covered.map, rest.map)]

\* The outcomes of DataMasker.mask, with Presidio or without.
Masks(text) ==
    {RegexMask(text)} \cup {PresidioMask(text, found) : found \in Analyses(text)}

\* str.replace of a placeholder.
Filled(text, e) ==
    FlattenSeq([k \in DOMAIN text |-> IF text[k] = e.hole THEN e.value ELSE <<text[k]>>])

\* One placeholder after the other.
Unmask(text, map) ==
    LET after[n \in 0..Len(map)] == IF n = 0 THEN text ELSE Filled(after[n - 1], map[n])
    IN  after[Len(map)]

=============================================================================
