------------------------------ MODULE Autolinks ------------------------------
(***************************************************************************)
(* The autolink extension (autolink.c): links made of "www." and a domain, *)
(* of a scheme and a domain, and, after parsing, of email addresses in the *)
(* texts.  Each operator takes the text that is left; "http" and "mailto"  *)
(* are one character each, a letter.                                       *)
(***************************************************************************)
EXTENDS Scanners

CONSTANT ManySegments   \* a domain with more segments may have underscores

Schemes == {"http"}
Alnum == Letter \cup Digit
HostChar == Char \ (Space \cup Punct \cup {BAD, NUL})   \* is_valid_hostchar

\* autolink_delim: how much of a link is left without what follows it.
Trailing == {"?", "!", ".", ",", ":", "*", "_", "~", "'", "\""}
autolink_delim(t) ==
  LET size == Min({p \in 1 .. Len(t) : t[p] = "<"} \cup {Len(t) + 1}) - 1
      Number(c) == Cardinality({p \in 1 .. size : t[p] = c})
      Amps(n) == {p \in 1 .. n - 2 : t[p] = "&" /\ \A q \in p + 1 .. n - 1 : t[q] \in Letter}
      Left[n \in 0 .. size, closing \in 0 .. size] ==
        IF n = 0 THEN 0
        ELSE IF t[n] = ")" THEN IF closing <= Number("(") THEN n ELSE Left[n - 1, closing - 1]
        ELSE IF t[n] = ";" THEN Left[IF Amps(n) = {} THEN n - 1 ELSE Max(Amps(n)) - 1, closing]
        ELSE IF t[n] \in Trailing THEN Left[n - 1, closing] ELSE n
  IN  Left[size, Number(")")]

\* check_domain: how long the domain is that t begins with.  The first and the
\* last character are never looked at.
check_domain(t, allow_short) ==
  LET size == Len(t)
      From[i \in 1 .. size + 1, dots \in 0 .. size, before \in 0 .. size, here \in 0 .. size] ==
        LET j == IF t[i + 1] = "\\" /\ i < size - 2 THEN i + 1 ELSE i
            c == t[j + 1]
        IN  IF i >= size - 1 THEN [end |-> i, dots |-> dots, scores |-> before + here]
            ELSE IF c = "_" THEN From[j + 1, dots, before, here + 1]
            ELSE IF c = "." THEN From[j + 1, dots + 1, here, 0]
            ELSE IF c \in HostChar \cup {"-"} THEN From[j + 1, dots, before, here]
            ELSE [end |-> j, dots |-> dots, scores |-> before + here]
      domain == From[1, 0, 0, 0]
  IN  IF domain.scores > 0 /\ domain.dots <= ManySegments THEN 0
      ELSE IF allow_short \/ domain.dots > 0 THEN domain.end ELSE 0

\* Mutant: what ends the link is part of it.
LinkLengthUncut(t, domain) ==
  Min({p \in domain + 1 .. Len(t) : t[p] \in Space \cup {"<"}} \cup {Len(t) + 1}) - 1

\* The link that begins with a domain goes on to a space or "<".
LinkLength(t, domain) ==
  LET more == {p \in domain + 1 .. Len(t) : t[p] \in Space \cup {"<"}}
  IN  autolink_delim(SubSeq(t, 1, Min(more \cup {Len(t) + 1}) - 1))

\* www_match: the length of the link at position i, counted from 0.
www_match(t, i) ==
  LET rest == SubSeq(t, i + 1, Len(t))
      domain == check_domain(rest, FALSE)
  IN  IF (i > 0 /\ t[i] \notin {"*", "_", "~", "("} \cup Space)
         \/ ~IsPrefix(<<"w", "w", "w", ".">>, rest) \/ domain = 0
      THEN 0 ELSE LinkLength(rest, domain)

\* url_match: how many letters before the colon are the scheme, and the length
\* of the link from the colon on.
url_match(t, i) ==
  LET rest == SubSeq(t, i + 1, Len(t))
      rewind == Max({n \in 0 .. i : \A p \in i - n + 1 .. i : t[p] \in Letter})
      domain == check_domain(SubSeq(rest, 4, Len(rest)), TRUE)
  IN  [rewind |-> rewind,
       length |-> IF /\ Len(rest) >= 4 /\ IsPrefix(<<":", "/", "/">>, rest)
                     /\ rewind = 1 /\ t[i] \in Schemes /\ rest[4] \in HostChar
                     /\ domain > 0
                  THEN LinkLength(rest, 3 + domain) ELSE 0]

-----------------------------------------------------------------------------
(***************************************************************************)
(* postprocess_text: the email addresses in a text.                        *)
(***************************************************************************)
LocalChar == Alnum \cup {".", "+", "-", "_"}

\* The ":" at position k belongs to "mailto:" or "xmpp:" (validate_protocol).
Protocol(t, name, k, base) ==
  k - 1 > base /\ t[k - 1] = name /\ (k - 2 > base => t[k - 2] \notin Alnum)
Protocols == {"mailto", "xmpp"}

\* How many characters before the "@" at position `at`, none of them at or
\* before `base`, belong to the address, and the protocols among them.
LocalPartOf(t, at, base) ==
  LET Ends(name, p) == t[p] = ":" /\ Protocol(t, name, p, base)
      Belongs(p) == t[p] \in LocalChar \/ \E name \in Protocols : Ends(name, p)
      length == Max({n \in 0 .. at - 1 - base : \A p \in at - n .. at - 1 : Belongs(p)})
  IN  [length |-> length,
       protocols |-> {name \in Protocols : \E p \in at - length .. at - 1 : Ends(name, p)}]

\* Mutant: a period at the end belongs to the address.
DomainAnyDot(t, at, is_xmpp) ==
  LET Belongs(p) == t[p] \in Alnum \cup {"-", "_", "."} \cup (IF is_xmpp THEN {"/"} ELSE {})
      end == Max({q \in at .. Len(t) : \A p \in at + 1 .. q : Belongs(p)})
  IN  [end |-> end, dots |-> \E p \in at + 1 .. end : t[p] = "."]

\* How far the address goes from its "@" on, and whether there is a period in it.
DomainOf(t, at, is_xmpp) ==
  LET Belongs(p) == \/ t[p] \in Alnum \cup {"-", "_"} \cup (IF is_xmpp THEN {"/"} ELSE {})
                    \/ t[p] = "." /\ p < Len(t) /\ t[p + 1] \in Alnum
      end == Max({q \in at .. Len(t) : \A p \in at + 1 .. q : Belongs(p)})
  IN  [end |-> end, dots |-> \E p \in at + 1 .. end : t[p] = "."]

RECURSIVE Emails(_, _), EmailAt(_, _, _, _, _)

\* The addresses in t after base.  Where one cannot be, the search goes on.
Emails(t, base) ==
  LET ats == {p \in base + 1 .. Len(t) : t[p] = "@"}
  IN  IF ats = {} THEN <<>> ELSE EmailAt(t, base, Min(ats), {}, FALSE)

\* Another "@" right after a domain takes its place: the protocols and the
\* periods that were seen count for it too.
EmailAt(t, base, at, seen, dots) ==
  LET local == LocalPartOf(t, at, base)
      protocols == seen \cup local.protocols
      domain == DomainOf(t, at, "xmpp" \in protocols)
      length == autolink_delim(SubSeq(t, at, domain.end))
      email == [from |-> at - local.length, to |-> at + length - 1, mailto |-> protocols = {}]
  IN  IF local.length = 0 THEN Emails(t, at)
      ELSE IF domain.end < Len(t) /\ t[domain.end + 1] = "@"
      THEN EmailAt(t, at, domain.end + 1, protocols, dots \/ domain.dots)
      ELSE IF domain.end = at \/ ~(dots \/ domain.dots) \/ t[domain.end] \notin Letter \cup {"."}
      THEN Emails(t, domain.end)
      ELSE IF length = 0 THEN Emails(t, at)
      ELSE <<email>> \o Emails(t, email.to)
=============================================================================
