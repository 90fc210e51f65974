--------------------------- MODULE TriggerProofs ----------------------------
(***************************************************************************)
(* The theorems about Trigger.  normalizeRepo brings every documented      *)
(* spelling of an address to host/path (NormalForm), so that a pipeline    *)
(* matches a delivery exactly if it is meant for it (MatchIsMeant).        *)
(* TriggerInv adds what ties builds and work to the deliveries.            *)
(***************************************************************************)
EXTENDS Trigger, SequenceTheorems, TLAPS

(***************************************************************************)
(* Where a part is first.                                                  *)
(***************************************************************************)
LEMMA FirstIs ==
  ASSUME NEW S, NEW url \in Seq(S), NEW part, NEW i \in 1 .. Len(url),
         url[i] = part, \A j \in 1 .. i - 1 : url[j] # part
  PROVE  First(url, part) = i
<1> DEFINE c == CHOOSE k \in DOMAIN url : url[k] = part /\ \A j \in 1 .. k - 1 : url[j] # part
<1>1. DOMAIN url = 1 .. Len(url) /\ Len(url) \in Nat
  BY LenProperties
<1>2. First(url, part) = c
  BY <1>1 DEF First, Range
<1>3. c \in 1 .. Len(url) /\ url[c] = part /\ \A j \in 1 .. c - 1 : url[j] # part
  BY <1>1
<1> HIDE DEF c
<1>4. ~ (c < i) /\ ~ (i < c)
  BY <1>1, <1>3
<1>5. c = i
  BY <1>1, <1>3, <1>4
<1> QED BY <1>2, <1>5

LEMMA FirstIsNone ==
  ASSUME NEW url, NEW part, part \notin Range(url)
  PROVE  First(url, part) = 0
BY DEF First

LEMMA AfterIs ==
  ASSUME NEW S, NEW s \in Seq(S), NEW i \in 0 .. Len(s)
  PROVE  /\ After(s, i) \in Seq(S) /\ Len(After(s, i)) = Len(s) - i
         /\ \A j \in 1 .. Len(s) - i : After(s, i)[j] = s[i + j]
<1>1. Len(s) \in Nat /\ \A j \in 1 .. Len(s) : s[j] \in S
  BY LenProperties, ElementOfSeq
<1> DEFINE m == i + 1
           n == Len(s)
           t == SubSeq(s, m, n)
<1>2. m \in Nat \ {0} /\ n \in Nat /\ m <= n + 1 /\ \A j \in m .. n : s[j] \in S
  BY <1>1
<1>3. n - m + 1 = n - i /\ (m <= n => n - m + 1 = n - i) /\ (~ (m <= n) => n - i = 0)
  BY <1>1
<1>4. \A j \in 1 .. n - i : m + j - 1 = i + j
  BY <1>1
<1> HIDE DEF m, n
<1>5. /\ t \in Seq(S)
      /\ Len(t) = IF m <= n THEN n - m + 1 ELSE 0
      /\ \A j \in 1 .. n - m + 1 : t[j] = s[m + j - 1]
  BY <1>2, SubSeqProperties
<1>6. After(s, i) = t
  BY DEF After, m, n
<1> HIDE DEF t
<1>7. Len(t) = n - i /\ \A j \in 1 .. n - i : t[j] = s[i + j]
  BY <1>3, <1>4, <1>5
<1> QED BY <1>5, <1>6, <1>7 DEF n

LEMMA AfterNone ==
  ASSUME NEW S, NEW s \in Seq(S)
  PROVE  After(s, 0) = s
<1>1. Len(s) \in Nat /\ SubSeq(s, 1, Len(s)) = s
  BY LenProperties, SubSeqFull
<1> QED BY <1>1 DEF After

(***************************************************************************)
(* Cutting the suffixes .git and / off an address that has one of them, or *)
(* none.                                                                   *)
(***************************************************************************)
LEMMA TrimOne ==
  ASSUME NEW S, NEW s \in Seq(S), NEW t \in S
  PROVE  TrimSuffix(Append(s, t), t) = s
<1> DEFINE u == Append(s, t)
<1>1. /\ Len(s) \in Nat /\ u \in Seq(S) /\ u # <<>> /\ Len(u) = Len(s) + 1
      /\ u[Len(s) + 1] = t /\ \A i \in 1 .. Len(s) : u[i] = s[i] /\ s[i] \in S
  BY LenProperties, AppendProperties, ElementOfSeq
<1> HIDE DEF u
<1>2. TrimSuffix(u, t) = SubSeq(u, 1, Len(s))
  <2>1. Len(u) - 1 = Len(s)
    BY <1>1
  <2> QED BY <1>1, <2>1 DEF TrimSuffix, Last, Front
<1>3. SubSeq(u, 1, Len(s)) = s
  <2> DEFINE v == SubSeq(u, 1, Len(s))
  <2>1. v \in Seq(S) /\ Len(v) = Len(s) /\ \A i \in 1 .. Len(s) : v[i] = s[i]
    BY <1>1, SubSeqProperties
  <2> HIDE DEF v
  <2>2. v = s
    BY <2>1, SeqEqual
  <2> QED BY <2>2 DEF v
<1> QED BY <1>2, <1>3 DEF u

LEMMA TrimNone ==
  ASSUME NEW url, NEW t, Last(url) # t
  PROVE  TrimSuffix(url, t) = url
BY DEF TrimSuffix

Trimmed(url) == TrimSuffix(TrimSuffix(url, ".git"), "/")

LEMMA TrimTail ==
  ASSUME NEW S, NEW s \in Seq(S), ".git" \in S, "/" \in S,
         Last(s) \notin {".git", "/"}, NEW tail \in Suffix
  PROVE  Trimmed(s \o tail) = s
<1>1. TrimSuffix(s, ".git") = s /\ TrimSuffix(s, "/") = s
  BY TrimNone
<1>2. CASE tail = <<>>
  <2>1. s \o tail = s
    BY <1>2, ConcatEmptySeq
  <2> QED BY <1>1, <2>1 DEF Trimmed
<1>3. CASE tail = <<".git">>
  <2>1. s \o tail = Append(s, ".git")
    BY <1>3, AppendIsConcat
  <2>2. TrimSuffix(s \o tail, ".git") = s
    BY <2>1, TrimOne
  <2> QED BY <1>1, <2>2 DEF Trimmed
<1>4. CASE tail = <<"/">>
  <2> DEFINE u == Append(s, "/")
  <2>1. s \o tail = u
    BY <1>4, AppendIsConcat
  <2>2. Len(s) \in Nat /\ Len(u) = Len(s) + 1 /\ u[Len(s) + 1] = "/"
    BY LenProperties, AppendProperties
  <2> HIDE DEF u
  <2>3. TrimSuffix(u, ".git") = u
    <3>1. Last(u) = "/"
      BY <2>2 DEF Last
    <3> QED BY <3>1, TrimNone
  <2>4. TrimSuffix(u, "/") = s
    BY TrimOne DEF u
  <2> QED BY <2>1, <2>3, <2>4 DEF Trimmed
<1> QED BY <1>2, <1>3, <1>4 DEF Suffix

(***************************************************************************)
(* Each scheme in front of a host and a path.                              *)
(***************************************************************************)
LEMMA ConcatIs ==
  ASSUME NEW S, NEW s \in Seq(S), NEW t \in Seq(S), NEW u \in Seq(S),
         Len(u) = Len(s) + Len(t),
         \A i \in 1 .. Len(s) : u[i] = s[i],
         \A i \in 1 .. Len(t) : u[Len(s) + i] = t[i]
  PROVE  s \o t = u
<1> DEFINE c == s \o t
<1>1. Len(s) \in Nat /\ Len(t) \in Nat
  BY LenProperties
<1>2. /\ c \in Seq(S) /\ Len(c) = Len(s) + Len(t)
      /\ \A i \in 1 .. Len(s) + Len(t) :
           c[i] = IF i <= Len(s) THEN s[i] ELSE t[i - Len(s)]
  BY ConcatProperties
<1> HIDE DEF c
<1>3. ASSUME NEW i \in 1 .. Len(c)
      PROVE  c[i] = u[i]
  <2>1. CASE i <= Len(s)
    BY <1>1, <1>2, <2>1
  <2>2. CASE ~ (i <= Len(s))
    <3>1. i - Len(s) \in 1 .. Len(t) /\ Len(s) + (i - Len(s)) = i
      BY <1>1, <1>2, <2>2
    <3>2. c[i] = t[i - Len(s)]
      BY <1>2, <2>2
    <3>3. u[Len(s) + (i - Len(s))] = t[i - Len(s)]
      BY <3>1
    <3> QED BY <3>1, <3>2, <3>3
  <2> QED BY <2>1, <2>2
<1>4. c = u
  BY <1>2, <1>3, SeqEqual
<1> QED BY <1>4 DEF c

LEMMA WithScheme ==
  ASSUME NEW h, NEW p
  PROVE  /\ \A w : <<w, "://">> \o <<h, "/", p>> = <<w, "://", h, "/", p>>
         /\ <<"ssh", "://", "git", "@">> \o <<h, "/", p>>
              = <<"ssh", "://", "git", "@", h, "/", p>>
         /\ <<>> \o <<h, "/", p>> = <<h, "/", p>>
<1>1. ASSUME NEW w
      PROVE  <<w, "://">> \o <<h, "/", p>> = <<w, "://", h, "/", p>>
  <2> DEFINE S == {w, "://", h, "/", p}
             s == <<w, "://">>
             t == <<h, "/", p>>
             u == <<w, "://", h, "/", p>>
  <2>1. /\ s \in Seq(S) /\ t \in Seq(S) /\ u \in Seq(S)
        /\ Len(s) = 2 /\ Len(t) = 3 /\ Len(u) = 5
        /\ u[1] = s[1] /\ u[2] = s[2]
        /\ u[3] = t[1] /\ u[4] = t[2] /\ u[5] = t[3]
    OBVIOUS
  <2> HIDE DEF S, s, t, u
  <2>2. /\ Len(u) = Len(s) + Len(t)
        /\ \A i \in 1 .. Len(s) : u[i] = s[i]
        /\ \A i \in 1 .. Len(t) : u[Len(s) + i] = t[i]
    BY <2>1
  <2>3. s \o t = u
    BY <2>1, <2>2, ConcatIs
  <2> QED BY <2>3 DEF s, t, u
<1>2. <<"ssh", "://", "git", "@">> \o <<h, "/", p>> = <<"ssh", "://", "git", "@", h, "/", p>>
  <2> DEFINE S == {"ssh", "git", "@", "://", h, "/", p}
             s == <<"ssh", "://", "git", "@">>
             t == <<h, "/", p>>
             u == <<"ssh", "://", "git", "@", h, "/", p>>
  <2>1. /\ s \in Seq(S) /\ t \in Seq(S) /\ u \in Seq(S)
        /\ Len(s) = 4 /\ Len(t) = 3 /\ Len(u) = 7
        /\ u[1] = s[1] /\ u[2] = s[2] /\ u[3] = s[3] /\ u[4] = s[4]
        /\ u[5] = t[1] /\ u[6] = t[2] /\ u[7] = t[3]
    OBVIOUS
  <2> HIDE DEF S, s, t, u
  <2>2. /\ Len(u) = Len(s) + Len(t)
        /\ \A i \in 1 .. Len(s) : u[i] = s[i]
        /\ \A i \in 1 .. Len(t) : u[Len(s) + i] = t[i]
    BY <2>1
  <2>3. s \o t = u
    BY <2>1, <2>2, ConcatIs
  <2> QED BY <2>3 DEF s, t, u
<1>3. <<>> \o <<h, "/", p>> = <<h, "/", p>>
  OBVIOUS
<1> QED BY <1>1, <1>2, <1>3

-----------------------------------------------------------------------------
(***************************************************************************)
(* The other steps of normalizeRepo, on what is left of each spelling.     *)
(***************************************************************************)
LEMMA CutScheme ==
  ASSUME NEW h, NEW p, h \notin Mark, p \notin Mark, NEW w \in {"https", "http"}
  PROVE  NoScheme(<<w, "://", h, "/", p>>) = <<h, "/", p>>
<1> DEFINE S == {w, "://", h, "/", p}
           s == <<w, "://", h, "/", p>>
           t == After(s, 2)
<1>1. /\ s \in Seq(S) /\ Len(s) = 5
      /\ s[1] = w /\ s[2] = "://" /\ s[3] = h /\ s[4] = "/" /\ s[5] = p
  OBVIOUS
<1> HIDE DEF s, S
<1>2. First(s, "://") = 2
  <2>1. \A j \in 1 .. 2 - 1 : s[j] # "://"
    BY <1>1
  <2> QED BY <1>1, <2>1, FirstIs
<1>3. t \in Seq(S) /\ Len(t) = 3 /\ \A j \in 1 .. 3 : t[j] = s[2 + j]
  <2>1. 2 \in 0 .. Len(s) /\ Len(s) - 2 = 3
    BY <1>1
  <2>2. /\ t \in Seq(S) /\ Len(t) = Len(s) - 2
        /\ \A j \in 1 .. Len(s) - 2 : t[j] = s[2 + j]
    BY <1>1, <2>1, AfterIs
  <2> HIDE DEF t
  <2> QED BY <2>1, <2>2
<1> HIDE DEF t
<1>4. t \in Seq(S) /\ Len(t) = 3 /\ t[1] = h /\ t[2] = "/" /\ t[3] = p
  BY <1>1, <1>3
<1>5. t = <<h, "/", p>>
  BY <1>4
<1> QED BY <1>2, <1>5 DEF NoScheme, s, t

LEMMA CutSSH ==
  ASSUME NEW h, NEW p, h \notin Mark, p \notin Mark
  PROVE  NoScheme(<<"ssh", "://", "git", "@", h, "/", p>>) = <<"git", "@", h, "/", p>>
<1> DEFINE S == {"ssh", "git", "@", "://", h, "/", p}
           s == <<"ssh", "://", "git", "@", h, "/", p>>
           t == After(s, 2)
<1>1. /\ s \in Seq(S) /\ Len(s) = 7 /\ s[1] = "ssh" /\ s[2] = "://"
      /\ s[3] = "git" /\ s[4] = "@" /\ s[5] = h /\ s[6] = "/" /\ s[7] = p
  OBVIOUS
<1> HIDE DEF s, S
<1>2. First(s, "://") = 2
  <2>1. \A j \in 1 .. 2 - 1 : s[j] # "://"
    BY <1>1
  <2> QED BY <1>1, <2>1, FirstIs
<1>3. t \in Seq(S) /\ Len(t) = 5 /\ \A j \in 1 .. 5 : t[j] = s[2 + j]
  <2>1. 2 \in 0 .. Len(s) /\ Len(s) - 2 = 5
    BY <1>1
  <2>2. /\ t \in Seq(S) /\ Len(t) = Len(s) - 2
        /\ \A j \in 1 .. Len(s) - 2 : t[j] = s[2 + j]
    BY <1>1, <2>1, AfterIs
  <2> HIDE DEF t
  <2> QED BY <2>1, <2>2
<1> HIDE DEF t
<1>4. /\ t \in Seq(S) /\ Len(t) = 5
      /\ t[1] = "git" /\ t[2] = "@" /\ t[3] = h /\ t[4] = "/" /\ t[5] = p
  BY <1>1, <1>3
<1>5. t = <<"git", "@", h, "/", p>>
  BY <1>4
<1> QED BY <1>2, <1>5 DEF NoScheme, s, t

LEMMA KeepNoScheme ==
  ASSUME NEW S, NEW url \in Seq(S), "://" \notin Range(url)
  PROVE  NoScheme(url) = url
BY FirstIsNone, AfterNone DEF NoScheme

LEMMA CutUser ==
  ASSUME NEW h, NEW p, h \notin Mark, p \notin Mark, NEW m \in {"/", ":"}
  PROVE  NoUser(<<"git", "@", h, m, p>>) = <<h, m, p>>
<1> DEFINE S == {"git", "@", h, m, p}
           s == <<"git", "@", h, m, p>>
           t == After(s, 2)
           u == SubSeq(s, 1, 2)
<1>1. /\ s \in Seq(S) /\ Len(s) = 5
      /\ s[1] = "git" /\ s[2] = "@" /\ s[3] = h /\ s[4] = m /\ s[5] = p
  OBVIOUS
<1> HIDE DEF s, S
<1>2. First(s, "@") = 2
  <2>1. \A j \in 1 .. 2 - 1 : s[j] # "@"
    BY <1>1
  <2> QED BY <1>1, <2>1, FirstIs
<1>3. t \in Seq(S) /\ Len(t) = 3 /\ \A j \in 1 .. 3 : t[j] = s[2 + j]
  <2>1. 2 \in 0 .. Len(s) /\ Len(s) - 2 = 3
    BY <1>1
  <2>2. /\ t \in Seq(S) /\ Len(t) = Len(s) - 2
        /\ \A j \in 1 .. Len(s) - 2 : t[j] = s[2 + j]
    BY <1>1, <2>1, AfterIs
  <2> HIDE DEF t
  <2> QED BY <2>1, <2>2
<1>4. "/" \notin Range(u)
  <2>1. \A j \in 1 .. 2 : s[j] \in {"git", "@"}
    BY <1>1
  <2>2. u \in Seq({"git", "@"})
    BY <2>1, SubSeqProperties
  <2> HIDE DEF u
  <2> QED BY <2>2 DEF Range
<1> HIDE DEF t, u
<1>5. t \in Seq(S) /\ Len(t) = 3 /\ t[1] = h /\ t[2] = m /\ t[3] = p
  BY <1>1, <1>3
<1>6. t = <<h, m, p>>
  BY <1>5
<1>7. NoUser(s) = t
  BY <1>2, <1>4 DEF NoUser, t, u
<1> QED BY <1>6, <1>7 DEF s

LEMMA KeepNoUser ==
  ASSUME NEW S, NEW url \in Seq(S), "@" \notin Range(url)
  PROVE  NoUser(url) = url
<1>1. First(url, "@") = 0 /\ After(url, 0) = url
  BY FirstIsNone, AfterNone
<1> QED BY <1>1 DEF NoUser

LEMMA ColonToSlash ==
  ASSUME NEW h, NEW p, h \notin Mark, p \notin Mark
  PROVE  WithSlash(<<h, ":", p>>) = <<h, "/", p>>
<1> DEFINE s == <<h, ":", p>>
<1>1. /\ s \in Seq({h, ":", p}) /\ Len(s) = 3
      /\ s[1] = h /\ s[2] = ":" /\ s[3] = p
  OBVIOUS
<1>2. [s EXCEPT ![2] = "/"] = <<h, "/", p>>
  OBVIOUS
<1> HIDE DEF s
<1>3. First(s, ":") = 2
  <2>1. \A j \in 1 .. 2 - 1 : s[j] # ":"
    BY <1>1 DEF Mark
  <2> QED BY <1>1, <2>1, FirstIs
<1>4. WithSlash(s) = [s EXCEPT ![2] = "/"]
  <2>1. WithSlash(s) = ReplaceAt(s, 2, "/")
    BY <1>3 DEF WithSlash
  <2> QED BY <2>1 DEF ReplaceAt
<1> QED BY <1>2, <1>4 DEF s

LEMMA KeepNoColon ==
  ASSUME NEW url, ":" \notin Range(url)
  PROVE  WithSlash(url) = url
BY FirstIsNone DEF WithSlash

(***************************************************************************)
(* Every documented spelling of an address is brought to one form.         *)
(***************************************************************************)
LEMMA NormalForm ==
  ASSUME NEW url, NEW h, NEW p, h \notin Mark, p \notin Mark,
         LowerAll(url) \in Spellings(h, p)
  PROVE  NormalizeRepo(url) = <<h, "/", p>> /\ url # <<>>
<1> DEFINE S == {"https", "http", "ssh", "git", "://", "@", ":", "/", ".git", h, p}
           plain == <<h, "/", p>>
           scp == <<"git", "@", h, ":", p>>
<1>1. /\ plain \in Seq(S) /\ Range(plain) = {h, "/", p}
      /\ scp \in Seq(S) /\ Range(scp) = {"git", "@", h, ":", p}
  BY DEF Range
<1>2. /\ NoScheme(plain) = plain /\ NoUser(plain) = plain /\ WithSlash(plain) = plain
      /\ NoScheme(scp) = scp
  <2> HIDE DEF plain, scp, S
  <2>1. "://" \notin Range(plain) /\ "@" \notin Range(plain) /\ ":" \notin Range(plain)
        /\ "://" \notin Range(scp)
    BY <1>1 DEF Mark
  <2> QED BY <1>1, <2>1, KeepNoScheme, KeepNoUser, KeepNoColon
<1> DEFINE low == LowerAll(url)
<1>3. PICK s \in Bare(h, p), tail \in Suffix : low = s \o tail
  BY DEF Spellings
<1>4. \/ \E w \in {"https", "http"} : s = <<w, "://", h, "/", p>>
       \/ s = <<"ssh", "://", "git", "@", h, "/", p>> \/ s = plain \/ s = scp
  <2>1. ASSUME NEW scheme \in Scheme, s = scheme \o plain
        PROVE  \/ \E w \in {"https", "http"} : s = <<w, "://", h, "/", p>>
               \/ s = <<"ssh", "://", "git", "@", h, "/", p>> \/ s = plain
    BY <2>1, WithScheme DEF Scheme
  <2> QED BY <2>1 DEF Bare
<1>5. s \in Seq(S) /\ Last(s) = p
  <2>1. CASE \E w \in {"https", "http"} : s = <<w, "://", h, "/", p>>
    BY <2>1 DEF Last
  <2>2. CASE s = <<"ssh", "://", "git", "@", h, "/", p>>
    BY <2>2 DEF Last
  <2>3. CASE s = plain
    BY <2>3 DEF Last
  <2>4. CASE s = scp
    BY <2>4 DEF Last
  <2> HIDE DEF plain, scp, S
  <2> QED BY <1>4, <2>1, <2>2, <2>3, <2>4
<1>6. url # <<>>
  <2>1. tail \in Seq(S)
    <3>1. <<>> \in Seq(S) /\ <<".git">> \in Seq(S) /\ <<"/">> \in Seq(S)
      OBVIOUS
    <3> HIDE DEF S, low
    <3> QED BY <3>1 DEF Suffix
  <2>2. s # <<>>
    BY <1>4
  <2> HIDE DEF S
  <2>3. Len(s) \in Nat /\ Len(s) # 0 /\ Len(tail) \in Nat
    BY <1>5, <2>1, <2>2, LenProperties, EmptySeq
  <2>4. Len(s \o tail) = Len(s) + Len(tail)
    BY <1>5, <2>1, ConcatProperties
  <2>5. Len(low) # 0
    <3> HIDE DEF low
    <3> QED BY <1>3, <2>3, <2>4
  <2>6. ASSUME url = <<>>
        PROVE  Len(low) = 0
    BY <2>6 DEF LowerAll
  <2> QED BY <2>5, <2>6
<1> SUFFICES NormalizeRepo(url) = <<h, "/", p>>
  BY <1>6
<1>7. Trimmed(LowerAll(url)) = s
  <2>1. ".git" \in S /\ "/" \in S /\ Last(s) \notin {".git", "/"}
    BY <1>5 DEF Mark
  <2> HIDE DEF S
  <2> QED BY <1>3, <1>5, <2>1, TrimTail
<1>8. NormalizeRepo(url) = WithSlash(NoUser(NoScheme(s)))
  BY <1>7 DEF NormalizeRepo, Trimmed
<1> HIDE DEF S
<1>9. CASE s = plain
  BY <1>2, <1>8, <1>9
<1>10. CASE s = scp
  <2>1. NoUser(scp) = <<h, ":", p>>
    BY CutUser
  <2> QED BY <1>2, <1>8, <1>10, <2>1, ColonToSlash
<1>11. CASE s = <<"ssh", "://", "git", "@", h, "/", p>>
  BY <1>2, <1>8, <1>11, CutSSH, CutUser
<1>12. CASE \E w \in {"https", "http"} : s = <<w, "://", h, "/", p>>
  BY <1>2, <1>8, <1>12, CutScheme
<1> QED BY <1>4, <1>9, <1>10, <1>11, <1>12

-----------------------------------------------------------------------------
(***************************************************************************)
(* Repositories: the address a platform sends is a spelling of its own     *)
(* repository and of no other.                                             *)
(***************************************************************************)
LEMMA LowerIsName ==
  ASSUME NEW t \in Name
  PROVE  Lower(t) \notin Mark
BY RepoAssumption DEF Lower

LEMMA SentAddress ==
  ASSUME NEW r \in Name \X Name
  PROVE  About(CloneURL(r), r)
<1> DEFINE h == Lower(r[1])
           p == Lower(r[2])
           bare == <<"https", "://", h, "/", p>>
<1>1. /\ Lower("https") = "https" /\ Lower("://") = "://"
      /\ Lower("/") = "/" /\ Lower(".git") = ".git"
  BY RepoAssumption DEF Lower, Mark
<1>2. LowerAll(CloneURL(r)) = <<"https", "://", h, "/", p, ".git">>
  <2> DEFINE u == CloneURL(r)
  <2>1. /\ DOMAIN u = 1 .. 6 /\ u[1] = "https" /\ u[2] = "://" /\ u[3] = r[1]
        /\ u[4] = "/" /\ u[5] = r[2] /\ u[6] = ".git"
    BY DEF CloneURL
  <2> DEFINE v == [i \in 1 .. 6 |-> Lower(u[i])]
  <2> HIDE DEF u
  <2>2. LowerAll(u) = v
    BY <2>1 DEF LowerAll
  <2>3. v = <<"https", "://", h, "/", p, ".git">>
    <3>1. /\ v[1] = "https" /\ v[2] = "://" /\ v[3] = h
          /\ v[4] = "/" /\ v[5] = p /\ v[6] = ".git"
      BY <1>1, <2>1
    <3>2. v \in Seq({v[1], v[2], v[3], v[4], v[5], v[6]}) /\ Len(v) = 6
      OBVIOUS
    <3> HIDE DEF v, h, p
    <3> QED BY <3>1, <3>2
  <2> QED BY <2>2, <2>3 DEF u
<1> HIDE DEF h, p
<1>3. bare \in Bare(h, p)
  BY WithScheme DEF Bare, Scheme
<1>4. bare \o <<".git">> = <<"https", "://", h, "/", p, ".git">>
  <2> DEFINE S == {"https", "://", "/", ".git", h, p}
             t == <<".git">>
             u == <<"https", "://", h, "/", p, ".git">>
  <2>1. /\ bare \in Seq(S) /\ t \in Seq(S) /\ u \in Seq(S)
        /\ Len(bare) = 5 /\ Len(t) = 1 /\ Len(u) = 6
        /\ u[1] = bare[1] /\ u[2] = bare[2] /\ u[3] = bare[3] /\ u[4] = bare[4]
        /\ u[5] = bare[5] /\ u[6] = t[1]
    OBVIOUS
  <2> HIDE DEF S, bare, t, u
  <2>2. /\ Len(u) = Len(bare) + Len(t)
        /\ \A i \in 1 .. Len(bare) : u[i] = bare[i]
        /\ \A i \in 1 .. Len(t) : u[Len(bare) + i] = t[i]
    BY <2>1
  <2>3. bare \o t = u
    BY <2>1, <2>2, ConcatIs
  <2> QED BY <2>3 DEF t, u
<1> HIDE DEF bare
<1>5. LowerAll(CloneURL(r)) \in Spellings(h, p)
  <2>1. <<".git">> \in Suffix
    BY DEF Suffix
  <2>2. \E b \in Bare(h, p), t \in Suffix : LowerAll(CloneURL(r)) = b \o t
    BY <1>2, <1>3, <1>4, <2>1
  <2> QED BY <2>2 DEF Spellings
<1> QED BY <1>5 DEF About, h, p

LEMMA NormalAddress ==
  ASSUME NEW url, NEW r \in Name \X Name, About(url, r)
  PROVE  NormalizeRepo(url) = <<Lower(r[1]), "/", Lower(r[2])>> /\ url # <<>>
BY LowerIsName, NormalForm DEF About

LEMMA AboutOne ==
  ASSUME NEW r \in Repo, NEW s \in Repo, About(CloneURL(r), s)
  PROVE  s = r
<1>1. r \in Name \X Name /\ s \in Name \X Name
  BY RepoAssumption
<1>2. <<Lower(r[1]), "/", Lower(r[2])>> = <<Lower(s[1]), "/", Lower(s[2])>>
  BY <1>1, SentAddress, NormalAddress
<1>3. Lower(r[1]) = Lower(s[1]) /\ Lower(r[2]) = Lower(s[2])
  BY <1>2
<1>4. \A x \in Name \X Name : LowerAll(x) = <<Lower(x[1]), Lower(x[2])>>
  BY DEF LowerAll
<1>5. LowerAll(r) = LowerAll(s)
  BY <1>1, <1>3, <1>4
<1> QED BY <1>5, RepoAssumption

-----------------------------------------------------------------------------
(***************************************************************************)
(* Matching finds what a delivery is meant for.                            *)
(***************************************************************************)
Counts(d) ==
  \/ d.kind \in {"push", "propose"}
  \/ d.kind = "tag" /\ d.repo[1] = GitHub

\* The same event under both names: what a pipeline lists and what a delivery is.
LEMMA EventNames ==
  ASSUME NEW e, Lower(e) \in {"push"} \cup ProposalName
  PROVE  /\ NormEvent(e) = NormEvent("push") <=> Lower(e) = "push"
         /\ \A f \in {"pull_request", "merge_request"} :
              NormEvent(e) = NormEvent(f) <=> Lower(e) \in ProposalName
<1>1. \A f \in {"push", "pull_request", "merge_request"} : Lower(f) = f
  BY RepoAssumption DEF Lower
<1>2. NormEvent("push") = "push" /\ \A f \in {"pull_request", "merge_request"} : NormEvent(f) = "pr"
  BY <1>1 DEF NormEvent
<1>3. CASE Lower(e) = "push"
  BY <1>2, <1>3 DEF NormEvent, ProposalName
<1>4. CASE Lower(e) \in ProposalName
  BY <1>2, <1>4 DEF NormEvent, ProposalName
<1> QED BY <1>3, <1>4

\* What the webhooks make of a delivery: nothing, or one info.
LEMMA ParseIs ==
  ASSUME NEW d \in Deliveries
  PROVE  /\ ~ Counts(d) => Parse(d) = {}
         /\ Counts(d) =>
              \E event \in IF d.kind = "propose" THEN {"pull_request", "merge_request"}
                          ELSE {"push"} :
                Parse(d) = {TriggerInfo(event, Subject(d), d)}
<1>1. CASE d.repo[1] = GitHub
  BY <1>1 DEF Deliveries, Counts, Parse, ParseGitHub, Subject
<1>2. CASE d.repo[1] # GitHub
  BY <1>2 DEF Deliveries, Counts, Parse, ParseGitLab, Subject
<1> QED BY <1>1, <1>2

LEMMA SameAddress ==
  ASSUME NEW url, NEW r \in Repo, NEW s \in Name \X Name, About(url, s)
  PROVE  NormalizeRepo(url) = NormalizeRepo(CloneURL(r)) <=> About(url, r)
<1>1. r \in Name \X Name
  BY RepoAssumption
<1>2. NormalizeRepo(CloneURL(r)) = <<Lower(r[1]), "/", Lower(r[2])>>
  BY <1>1, SentAddress, NormalAddress
<1>3. NormalizeRepo(url) = <<Lower(s[1]), "/", Lower(s[2])>>
  BY NormalAddress
<1>4. ASSUME NormalizeRepo(url) = NormalizeRepo(CloneURL(r))
      PROVE  About(url, r)
  <2>1. <<Lower(r[1]), "/", Lower(r[2])>> = <<Lower(s[1]), "/", Lower(s[2])>>
    BY <1>2, <1>3, <1>4
  <2>2. Lower(r[1]) = Lower(s[1]) /\ Lower(r[2]) = Lower(s[2])
    BY <2>1
  <2> QED BY <2>2 DEF About
<1>5. ASSUME About(url, r)
      PROVE  NormalizeRepo(url) = NormalizeRepo(CloneURL(r))
  BY <1>1, <1>2, <1>5, NormalAddress
<1> QED BY <1>4, <1>5

LEMMA MatchIsMeant ==
  ASSUME NEW d \in Deliveries, NEW def, Documented(def)
  PROVE  (\E info \in Parse(d) : MatchPipeline(def, info)) <=> Meant(def, d)
<1>1. CASE ~ Counts(d)
  <2>1. ~ Meant(def, d)
    BY <1>1 DEF Counts, Meant
  <2> QED BY <1>1, <2>1, ParseIs
<1>2. CASE Counts(d)
  <2> DEFINE events == IF d.kind = "propose" THEN {"pull_request", "merge_request"} ELSE {"push"}
             named == IF d.kind = "propose" THEN ProposalName ELSE {"push"}
  <2>1. PICK event \in events : Parse(d) = {TriggerInfo(event, Subject(d), d)}
    BY <1>2, ParseIs
  <2> DEFINE info == TriggerInfo(event, Subject(d), d)
  <2>2. /\ info.event = event /\ info.branch = d.branch
        /\ info.repo = CloneURL(Subject(d))
    BY DEF TriggerInfo
  <2>3. (def.repo # <<>> /\ NormalizeRepo(def.repo) = NormalizeRepo(info.repo))
          <=> About(def.repo, Subject(d))
    <3>1. Subject(d) \in Repo
      BY DEF Deliveries, Subject
    <3>2. Subject(d) \in Name \X Name
      BY <3>1, RepoAssumption
    <3>3. CASE \E s \in Name \X Name : About(def.repo, s)
      <4>1. def.repo # <<>>
        BY <3>3, NormalAddress
      <4> QED BY <2>2, <3>1, <3>3, <4>1, SameAddress
    <3>4. CASE ~ \E s \in Name \X Name : About(def.repo, s)
      BY <3>2, <3>4 DEF Documented
    <3> QED BY <3>3, <3>4
  <2>4. \A e \in def.events : NormEvent(e) = NormEvent(event) <=> Lower(e) \in named
    BY EventNames DEF Documented
  <2> HIDE DEF info, events, named
  <2>5. MatchPipeline(def, info) <=> Meant(def, d)
    <3>1. MatchPipeline(def, info) <=>
            /\ About(def.repo, Subject(d))
            /\ def.events = {} \/ \E e \in def.events : Lower(e) \in named
            /\ def.branches = {} \/ d.branch \in def.branches
      BY <2>2, <2>3, <2>4 DEF MatchPipeline
    <3> QED BY <1>2, <3>1 DEF Meant, Counts, named
  <2> QED BY <2>1, <2>5 DEF info
<1> QED BY <1>1, <1>2

-----------------------------------------------------------------------------
(***************************************************************************)
(* The inductive invariant.                                                *)
(***************************************************************************)
\* A push is to a branch, and the numbers that arrived are not used again.
NumberInv ==
  /\ \A d \in sent : d.kind = "push" => d.branch \in Branch
  /\ \A x \in todo : x.from <= requests
  /\ \A i \in DOMAIN builds : builds[i].from <= requests
  /\ \A o \in owed : o.n \in 1 .. requests

\* What is created for a delivery is what Parse made of it.
ClaimInv ==
  \A o \in owed :
    /\ \A x \in Due(o.n) : x.info \in Parse(o.d)
    /\ \A i \in Made(o.n) : builds[i].info \in Parse(o.d)

StagesInv == \A x \in todo : Valid(x.stages)

TriggerInv == TypeOK /\ NumberInv /\ ClaimInv /\ StagesInv /\ BuiltAsMeant

-----------------------------------------------------------------------------
(***************************************************************************)
(* Types.                                                                  *)
(***************************************************************************)
LEMMA DefinitionOf ==
  ASSUME TypeOK, NEW p \in DOMAIN pipelines
  PROVE  /\ p \in PipelineNames /\ pipelines[p] \in Definitions
         /\ Valid(pipelines[p].stages) /\ pipelines[p].stages \in Seq(Stage)
<1>1. p \in PipelineNames /\ pipelines[p] \in Definitions
  BY DEF TypeOK, Range
<1> QED BY <1>1, PipelineAssumption DEF Valid

\* A branch with one commit more, or another last one.
LEMMA PushedBranch ==
  ASSUME NEW old \in Seq(Nat), old # <<>>, NEW keep \in {Len(old), Len(old) - 1},
         NEW n \in Nat
  PROVE  Append(SubSeq(old, 1, keep), n) \in Seq(Nat) \ {<<>>}
<1> DEFINE k == SubSeq(old, 1, keep)
<1>1. Len(old) \in Nat \ {0} /\ \A i \in 1 .. Len(old) : old[i] \in Nat
  BY LenProperties, EmptySeq, ElementOfSeq
<1>2. keep \in Nat /\ 1 <= keep + 1 /\ \A i \in 1 .. keep : old[i] \in Nat
  BY <1>1
<1>3. k \in Seq(Nat)
  BY <1>2, SubSeqProperties
<1> HIDE DEF k
<1> QED BY <1>3, AppendProperties DEF k

LEMMA RecentIs ==
  ASSUME NEW history \in Seq(Nat)
  PROVE  /\ Recent(history) \in Seq(Nat) /\ Range(Recent(history)) \subseteq Nat
         /\ Recent(history) # <<>> => Last(Recent(history)) \in Nat
<1> DEFINE from == IF Len(history) > Depth THEN Len(history) - Depth + 1 ELSE 1
           n == Len(history)
           got == SubSeq(history, from, n)
<1>1. n \in Nat /\ \A i \in 1 .. n : history[i] \in Nat
  BY LenProperties, ElementOfSeq
<1>2. from \in Nat \ {0} /\ from <= n + 1
  BY <1>1, BoundAssumption
<1>3. Recent(history) = got
  BY DEF Recent
<1> HIDE DEF from, n
<1>4. got \in Seq(Nat)
  BY <1>1, <1>2, SubSeqProperties
<1> HIDE DEF got
<1>5. Len(got) \in Nat /\ DOMAIN got = 1 .. Len(got) /\ \A i \in 1 .. Len(got) : got[i] \in Nat
  BY <1>4, LenProperties, ElementOfSeq
<1>6. got # <<>> => Len(got) # 0
  BY <1>4, EmptySeq
<1>7. Range(got) \subseteq Nat
  BY <1>5 DEF Range
<1>8. got # <<>> => Last(got) \in Nat
  BY <1>5, <1>6 DEF Last
<1> QED BY <1>3, <1>4, <1>7, <1>8

LEMMA HistoryIs ==
  ASSUME TypeOK, NEW repo, NEW branch
  PROVE  History(repo, branch) \in Seq(Nat)
<1> DEFINE b == IF branch = "" THEN Main ELSE branch
           r == CHOOSE x \in Repo : About(repo, x)
<1>1. CASE b \in Branch /\ \E x \in Repo : About(repo, x)
  <2>1. r \in Repo
    BY <1>1
  <2>2. History(repo, branch) = remote[r][b]
    BY <1>1 DEF History
  <2> HIDE DEF r, b
  <2> QED BY <1>1, <2>1, <2>2 DEF TypeOK
<1>2. CASE ~ (b \in Branch /\ \E x \in Repo : About(repo, x))
  <2>1. History(repo, branch) = <<>>
    BY <1>2 DEF History
  <2> QED BY <2>1
<1> QED BY <1>1, <1>2

LEMMA GitCloneIs ==
  ASSUME TypeOK, NEW info
  PROVE  GitClone(info) \in Nat \cup {Failed}
<1> DEFINE got == Recent(History(info.repo, info.branch))
<1>1. got \in Seq(Nat) /\ Range(got) \subseteq Nat /\ (got # <<>> => Last(got) \in Nat)
  BY HistoryIs, RecentIs
<1>2. GitClone(info) = IF got = <<>> THEN Failed
                      ELSE IF info.commit \in Range(got) THEN info.commit ELSE Last(got)
  BY DEF GitClone
<1> HIDE DEF got
<1> QED BY <1>1, <1>2

\* The stages of a build with the clone in front.
LEMMA WithCloneIs ==
  ASSUME NEW stages \in Seq(Stage)
  PROVE  /\ WithClone(stages) \in Seq(BuildStage)
         /\ Len(WithClone(stages)) = Len(stages) + 1
         /\ WithClone(stages)[1] = [name |-> "clone", deps |-> {}]
         /\ \A i \in 1 .. Len(stages) :
              WithClone(stages)[i + 1] =
                IF stages[i].deps = {} THEN [stages[i] EXCEPT !.deps = {"clone"}] ELSE stages[i]
<1> DEFINE n == Len(stages)
           first == <<[name |-> "clone", deps |-> {}]>>
           rest == [i \in 1 .. n |->
                      IF stages[i].deps = {} THEN [stages[i] EXCEPT !.deps = {"clone"}]
                        ELSE stages[i]]
           all == first \o rest
<1>1. n \in Nat /\ DOMAIN stages = 1 .. n /\ \A i \in 1 .. n : stages[i] \in Stage
  BY LenProperties, ElementOfSeq
<1>2. WithClone(stages) = all
  BY <1>1 DEF WithClone
<1>3. first \in Seq(BuildStage) /\ Len(first) = 1 /\ first[1] = [name |-> "clone", deps |-> {}]
  BY DEF BuildStage
<1>4. rest \in Seq(BuildStage) /\ Len(rest) = n
  <2>1. \A i \in 1 .. n : rest[i] \in BuildStage
    BY <1>1 DEF Stage, BuildStage
  <2>2. rest = [i \in 1 .. n |-> rest[i]]
    OBVIOUS
  <2> HIDE DEF rest
  <2> QED BY <1>1, <2>1, <2>2
<1>5. \A i \in 1 .. n : rest[i] =
        IF stages[i].deps = {} THEN [stages[i] EXCEPT !.deps = {"clone"}] ELSE stages[i]
  OBVIOUS
<1> HIDE DEF first, rest
<1>6. /\ all \in Seq(BuildStage) /\ Len(all) = 1 + n
      /\ \A i \in 1 .. 1 + n : all[i] = IF i <= 1 THEN first[i] ELSE rest[i - 1]
  <2>1. first \in Seq(BuildStage) /\ rest \in Seq(BuildStage)
    BY <1>3, <1>4
  <2>2. /\ all \in Seq(BuildStage) /\ Len(all) = Len(first) + Len(rest)
        /\ \A i \in 1 .. Len(first) + Len(rest) :
             all[i] = IF i <= Len(first) THEN first[i] ELSE rest[i - Len(first)]
    BY <2>1, ConcatProperties
  <2> HIDE DEF all
  <2> QED BY <1>3, <1>4, <2>2
<1> HIDE DEF all
<1>7. all[1] = first[1] /\ \A i \in 1 .. n : all[i + 1] = rest[i]
  BY <1>1, <1>6
<1> QED BY <1>1, <1>2, <1>3, <1>5, <1>6, <1>7 DEF n

LEMMA TypeInit == Init => TypeOK
<1> SUFFICES ASSUME Init
             PROVE  TypeOK
  OBVIOUS
<1>1. remote \in [Repo -> [Branch -> Seq(Nat)]] /\ \A r \in Repo : remote[r][Main] # <<>>
  <2>1. <<1>> \in Seq(Nat) /\ <<>> \in Seq(Nat) /\ <<1>> # <<>>
    OBVIOUS
  <2> QED BY <2>1, RepoAssumption DEF Init
<1>2. DOMAIN pipelines \subseteq PipelineNames /\ Range(pipelines) \subseteq Definitions
  BY DEF Init, PipelineNames, Definitions
<1>3. /\ commits \in Nat /\ requests \in Nat /\ sent \subseteq Deliveries
      /\ todo \subseteq Work /\ builds \in Seq(Build)
  BY DEF Init
<1>4. owed \subseteq [n : Nat, d : sent, pipes : SUBSET PipelineNames,
                     open : SUBSET PipelineNames]
  BY DEF Init
<1> QED BY <1>1, <1>2, <1>3, <1>4 DEF TypeOK

\* What the repositories do.
LEMMA RepositoryTypes ==
  ASSUME TypeOK, Repositories
  PROVE  TypeOK'
<1> SUFFICES /\ remote' \in [Repo -> [Branch -> Seq(Nat)]]
             /\ \A r \in Repo : remote'[r][Main] # <<>>
             /\ commits' \in Nat /\ sent' \subseteq Deliveries /\ sent \subseteq sent'
  BY DEF TypeOK, Repositories, Push, DeleteBranch, PushTag, Propose
<1>1. PICK r \in Repo, b \in Branch :
        \/ Push(r, b) \/ DeleteBranch(r, b) \/ PushTag(r)
        \/ \E head \in Repo, kind \in {"propose", "close"} : Propose(r, head, b, kind)
  BY DEF Repositories
<1>2. /\ \A x \in Repo, y \in Branch : remote[x][y] \in Seq(Nat)
      /\ \A x \in Repo : remote[x][Main] \in Seq(Nat) \ {<<>>}
      /\ commits \in Nat /\ commits + 1 \in Nat /\ Main \in Branch
  <2>1. Main \in Branch
    BY RepoAssumption
  <2>2. \A x \in Repo, y \in Branch : remote[x][y] \in Seq(Nat)
    BY DEF TypeOK
  <2> QED BY <2>1, <2>2 DEF TypeOK
<1>3. \A s \in Seq(Nat) \ {<<>>} : Last(s) \in Nat
  <2> SUFFICES ASSUME NEW s \in Seq(Nat), s # <<>>
               PROVE  Last(s) \in Nat
    OBVIOUS
  <2>1. Len(s) \in Nat \ {0} /\ \A i \in 1 .. Len(s) : s[i] \in Nat
    BY LenProperties, EmptySeq, ElementOfSeq
  <2> QED BY <2>1 DEF Last
<1>4. ASSUME NEW d \in Deliveries, Send(d)
      PROVE  sent' \subseteq Deliveries /\ sent \subseteq sent'
  BY <1>4 DEF Send, TypeOK
<1>5. CASE Push(r, b)
  <2> DEFINE old == IF remote[r][b] = <<>> THEN remote[r][Main] ELSE remote[r][b]
             d == Delivery("push", r, r, b, commits + 1)
  <2>1. old \in Seq(Nat) /\ old # <<>>
    BY <1>2
  <2>2. PICK keep \in {Len(old), Len(old) - 1} :
          remote' = [remote EXCEPT ![r][b] = Append(SubSeq(old, 1, keep), commits + 1)]
    BY <1>5 DEF Push
  <2> HIDE DEF old
  <2> DEFINE now == Append(SubSeq(old, 1, keep), commits + 1)
  <2>3. now \in Seq(Nat) \ {<<>>}
    BY <1>2, <2>1, PushedBranch
  <2>4. remote' = [remote EXCEPT ![r][b] = now]
    BY <2>2
  <2> HIDE DEF now
  <2>5. /\ remote' \in [Repo -> [Branch -> Seq(Nat)]]
        /\ \A x \in Repo : remote'[x][Main] # <<>>
    BY <1>2, <2>3, <2>4 DEF TypeOK
  <2>6. d \in Deliveries /\ Send(d) /\ commits' = commits + 1
    BY <1>2, <1>5 DEF Push, Delivery, Deliveries
  <2> QED BY <1>2, <1>4, <2>5, <2>6
<1>6. CASE DeleteBranch(r, b)
  <2> DEFINE d == Delivery("delete", r, r, b, None)
  <2>1. d \in Deliveries /\ Send(d) /\ commits' = commits
    BY <1>6 DEF DeleteBranch, Delivery, Deliveries
  <2>2. <<>> \in Seq(Nat) /\ b # Main /\ remote' = [remote EXCEPT ![r][b] = <<>>]
    BY <1>6 DEF DeleteBranch
  <2>3. /\ remote' \in [Repo -> [Branch -> Seq(Nat)]]
        /\ \A x \in Repo : remote'[x][Main] # <<>>
    BY <1>2, <2>2 DEF TypeOK
  <2> QED BY <1>2, <1>4, <2>1, <2>3
<1>7. CASE PushTag(r)
  <2> DEFINE d == Delivery("tag", r, r, Tag, Last(remote[r][Main]))
  <2>1. d \in Deliveries /\ Send(d) /\ commits' = commits /\ remote' = remote
    BY <1>2, <1>3, <1>7 DEF PushTag, Delivery, Deliveries
  <2> QED BY <1>2, <1>4, <2>1 DEF TypeOK
<1>8. ASSUME NEW head \in Repo, NEW kind \in {"propose", "close"}, Propose(r, head, b, kind)
      PROVE  /\ remote' = remote /\ commits' = commits
             /\ sent' \subseteq Deliveries /\ sent \subseteq sent'
  <2> DEFINE d == Delivery(kind, r, head, Main, Last(remote[head][b]))
  <2>1. Last(remote[head][b]) \in Nat
    BY <1>2, <1>3, <1>8 DEF Propose
  <2>2. d \in Deliveries /\ Send(d) /\ commits' = commits /\ remote' = remote
    BY <1>2, <1>8, <2>1 DEF Propose, Delivery, Deliveries
  <2> QED BY <1>4, <2>2
<1> QED BY <1>1, <1>2, <1>5, <1>6, <1>7, <1>8 DEF TypeOK

LEMMA ParsedInfo ==
  ASSUME NEW d \in Deliveries, NEW info \in Parse(d)
  PROVE  /\ info \in Info /\ info.commit = d.commit /\ Parse(d) = {info}
         /\ d.kind = "push" => info = TriggerInfo("push", d.repo, d)
<1>1. Counts(d)
  BY ParseIs
<1>2. PICK event \in IF d.kind = "propose" THEN {"pull_request", "merge_request"} ELSE {"push"} :
        Parse(d) = {TriggerInfo(event, Subject(d), d)}
  BY <1>1, ParseIs
<1>3. info = TriggerInfo(event, Subject(d), d) /\ Parse(d) = {info}
  BY <1>2
<1>4. event \in {"push", "pull_request", "merge_request"}
  BY <1>2
<1>5. Subject(d) \in Repo
  BY DEF Deliveries, Subject
<1>6. info \in Info /\ info.commit = d.commit
  <2>1. d.branch \in Branch \cup {Tag} /\ d.commit \in Nat \cup {None}
    BY DEF Deliveries
  <2>2. CloneURL(Subject(d)) \in {CloneURL(r) : r \in Repo}
    BY <1>5
  <2> QED BY <1>3, <1>4, <2>1, <2>2 DEF Info, TriggerInfo
<1>7. d.kind = "push" => info = TriggerInfo("push", d.repo, d)
  BY <1>2, <1>3 DEF Subject
<1> QED BY <1>3, <1>6, <1>7

\* What the handlers do.
LEMMA HandlerTypes ==
  ASSUME TypeOK, Handlers
  PROVE  TypeOK'
<1>1. ASSUME NEW p \in Pipeline, Delete(p)
      PROVE  TypeOK'
  <2>1. /\ DOMAIN pipelines' \subseteq DOMAIN pipelines
        /\ \A q \in DOMAIN pipelines' : pipelines'[q] = pipelines[q]
    BY <1>1 DEF Delete
  <2>2. Range(pipelines') \subseteq Range(pipelines)
    BY <2>1 DEF Range
  <2> QED BY <1>1, <2>1, <2>2 DEF TypeOK, Delete
<1>2. ASSUME NEW p \in Pipeline, NEW def \in Definition, Register(p, def)
      PROVE  TypeOK'
  <2>1. DOMAIN pipelines' = DOMAIN pipelines \cup {p}
    BY <1>2 DEF Register
  <2>2. \A q \in DOMAIN pipelines' :
          pipelines'[q] = IF q = p THEN def ELSE pipelines[q]
    BY <1>2 DEF Register
  <2>3. \A q \in DOMAIN pipelines' : pipelines'[q] \in Range(pipelines) \cup {def}
    BY <2>1, <2>2 DEF Range
  <2>4. Range(pipelines') \subseteq Range(pipelines) \cup {def}
    BY <2>3 DEF Range
  <2>5. p \in PipelineNames /\ def \in Definitions
    BY DEF PipelineNames, Definitions
  <2> QED BY <1>2, <2>1, <2>4, <2>5 DEF TypeOK, Register
<1>3. ASSUME NEW d \in sent, Deliver(d)
      PROVE  TypeOK'
  <2> DEFINE n == requests + 1
             hits == {x \in (DOMAIN pipelines) \X Parse(d) : MatchPipeline(pipelines[x[1]], x[2])}
             work(x) == [from |-> n, pipe |-> x[1], stages |-> pipelines[x[1]].stages,
                         info |-> x[2]]
             due == [n |-> n, d |-> d,
                     pipes |-> {p \in DOMAIN pipelines : Meant(pipelines[p], d)},
                     open |-> {p \in DOMAIN pipelines : ~ Documented(pipelines[p])}]
  <2>1. /\ todo' = todo \cup {work(x) : x \in hits} /\ owed' = owed \cup {due}
        /\ requests' = n
        /\ UNCHANGED <<remote, commits, sent, pipelines, builds>>
    BY <1>3 DEF Deliver, Room
  <2>2. d \in Deliveries /\ n \in Nat /\ DOMAIN pipelines \subseteq PipelineNames
    BY DEF TypeOK
  <2>3. ASSUME NEW x \in hits
        PROVE  work(x) \in Work
    <3>1. x[1] \in DOMAIN pipelines /\ x[2] \in Parse(d)
      OBVIOUS
    <3>2. x[1] \in PipelineNames /\ pipelines[x[1]].stages \in Seq(Stage) /\ x[2] \in Info
      BY <2>2, <3>1, DefinitionOf, ParsedInfo
    <3> QED BY <2>2, <3>2 DEF Work
  <2>4. due \in [n : Nat, d : sent, pipes : SUBSET PipelineNames, open : SUBSET PipelineNames]
    BY <2>2
  <2> HIDE DEF n, hits, work, due
  <2>5. /\ todo' \subseteq Work /\ requests' \in Nat
        /\ owed' \subseteq [n : Nat, d : sent', pipes : SUBSET PipelineNames,
                            open : SUBSET PipelineNames]
    BY <2>1, <2>2, <2>3, <2>4 DEF TypeOK
  <2> QED BY <2>1, <2>5 DEF TypeOK
<1>4. ASSUME NEW p \in Pipeline, NEW req \in Request, RunRequest(p, req)
      PROVE  TypeOK'
  <2> DEFINE info == [event |-> None, repo |-> req.repo, branch |-> req.branch,
                      commit |-> req.commit]
             work == [from |-> 0, pipe |-> p, stages |-> pipelines[p].stages, info |-> info]
  <2>1. p \in DOMAIN pipelines /\ todo' = todo \cup {work} /\ requests' = requests + 1
        /\ UNCHANGED <<remote, commits, sent, pipelines, builds, owed>>
    BY <1>4 DEF RunRequest, Room
  <2>2. p \in PipelineNames /\ pipelines[p].stages \in Seq(Stage)
    BY <2>1, DefinitionOf
  <2>3. info \in Info
    <3>1. req.commit \in Nat \cup {None}
      BY PipelineAssumption
    <3> QED BY <3>1 DEF Info
  <2> HIDE DEF info
  <2>4. work \in Work
    BY <2>2, <2>3 DEF Work
  <2> HIDE DEF work
  <2> QED BY <2>1, <2>4 DEF TypeOK
<1>5. ASSUME NEW x \in todo, CreateBuild(x)
      PROVE  TypeOK'
  <2> DEFINE b == [from |-> x.from, pipe |-> x.pipe, info |-> x.info, copy |-> None,
                   stages |-> IF x.info.repo = <<>> THEN x.stages ELSE WithClone(x.stages)]
  <2>1. /\ todo' = todo \ {x} /\ builds' = Append(builds, b)
        /\ UNCHANGED <<remote, commits, sent, pipelines, requests, owed>>
    BY <1>5 DEF CreateBuild
  <2>2. x \in Work
    BY DEF TypeOK
  <2>3. x.stages \in Seq(BuildStage) /\ WithClone(x.stages) \in Seq(BuildStage)
    <3>1. x.stages \in Seq(Stage)
      BY <2>2 DEF Work
    <3>2. Stage \subseteq BuildStage
      BY DEF Stage, BuildStage
    <3> QED BY <3>1, <3>2, WithCloneIs
  <2>4. b \in Build
    BY <2>2, <2>3 DEF Build, Work
  <2> HIDE DEF b
  <2>5. builds' \in Seq(Build)
    BY <2>1, <2>4, AppendProperties DEF TypeOK
  <2> QED BY <2>1, <2>5 DEF TypeOK
<1> QED BY <1>1, <1>2, <1>3, <1>4, <1>5 DEF Handlers

LEMMA TypeStep == TypeOK /\ [Next]_vars => TypeOK'
<1> SUFFICES ASSUME TypeOK, [Next]_vars
             PROVE  TypeOK'
  OBVIOUS
<1>1. ASSUME NEW i \in DOMAIN builds, RunClone(i)
      PROVE  TypeOK'
  <2>1. PICK c \in Nat \cup {None, Failed, UserStep} :
          builds' = [builds EXCEPT ![i].copy = c]
    BY <1>1, GitCloneIs DEF RunClone
  <2>2. /\ builds \in Seq(Build) /\ i \in 1 .. Len(builds) /\ builds[i] \in Build
        /\ [builds[i] EXCEPT !.copy = c] \in Build
    <3>1. builds \in Seq(Build)
      BY DEF TypeOK
    <3>2. i \in 1 .. Len(builds) /\ builds[i] \in Build
      BY <3>1, LenProperties, ElementOfSeq
    <3> QED BY <3>1, <3>2 DEF Build
  <2>3. builds' = [builds EXCEPT ![i] = [builds[i] EXCEPT !.copy = c]]
    BY <2>1
  <2>4. builds' \in Seq(Build)
    BY <2>2, <2>3, ExceptSeq
  <2> QED BY <1>1, <2>4 DEF TypeOK, RunClone
<1>2. CASE UNCHANGED vars
  BY <1>2 DEF TypeOK, vars
<1> QED BY <1>1, <1>2, RepositoryTypes, HandlerTypes DEF Next

\* The type of every variable; among them, that no default branch becomes empty.
THEOREM TypeCorrect == Spec => []TypeOK
BY TypeInit, TypeStep, PTL DEF Spec

-----------------------------------------------------------------------------
(***************************************************************************)
(* Each step keeps what is made and due for a delivery.                    *)
(***************************************************************************)
\* Nothing is made for a delivery that arrived.
Unmoved ==
  /\ owed' = owed /\ requests' \in Nat /\ requests <= requests'
  /\ \A x \in todo' : x.from <= requests' /\ Valid(x.stages)
  /\ \A o \in owed : \A x : (x \in todo' /\ x.from = o.n) <=> x \in Due(o.n)
  /\ DOMAIN builds' = DOMAIN builds
  /\ \A i \in DOMAIN builds :
       /\ builds'[i].from = builds[i].from /\ builds'[i].pipe = builds[i].pipe
       /\ builds'[i].info = builds[i].info
  /\ \A d \in sent' : d.kind = "push" => d.branch \in Branch

LEMMA UnmovedStep ==
  ASSUME TypeOK, NumberInv, ClaimInv, BuiltAsMeant, Unmoved
  PROVE  NumberInv' /\ ClaimInv' /\ StagesInv' /\ BuiltAsMeant'
<1>1. ASSUME NEW o \in owed
      PROVE  Made(o.n)' = Made(o.n) /\ Due(o.n)' = Due(o.n)
  <2>1. Made(o.n)' = Made(o.n)
    BY DEF Made, Unmoved
  <2>2. \A x : x \in Due(o.n)' <=> x \in Due(o.n)
    BY DEF Due, Unmoved
  <2> QED BY <2>1, <2>2
<1>2. NumberInv'
  <2>1. requests \in Nat /\ \A i \in DOMAIN builds : builds[i].from \in Nat
    <3>1. \A i \in DOMAIN builds : builds[i] \in Build
      BY ElementOfSeq, LenProperties DEF TypeOK
    <3> QED BY <3>1 DEF TypeOK, Build
  <2> QED BY <2>1 DEF NumberInv, Unmoved
<1>3. ClaimInv'
  <2> SUFFICES ASSUME NEW o \in owed
               PROVE  /\ \A x \in Due(o.n) : x.info \in Parse(o.d)
                      /\ \A i \in Made(o.n) : builds'[i].info \in Parse(o.d)
    BY <1>1 DEF ClaimInv, Unmoved
  <2>1. Made(o.n) \subseteq DOMAIN builds
    BY DEF Made
  <2> QED BY <2>1 DEF ClaimInv, Unmoved
<1>4. BuiltAsMeant'
  <2> SUFFICES ASSUME NEW o \in owed
               PROVE  /\ ({builds'[i].pipe : i \in Made(o.n)} \cup {x.pipe : x \in Due(o.n)})
                            \ o.open = o.pipes
                      /\ \A i \in Made(o.n) :
                           /\ builds'[i].info.commit = o.d.commit
                           /\ \A j \in Made(o.n) : builds'[i].pipe = builds'[j].pipe => i = j
                      /\ \A x \in Due(o.n) :
                           /\ x.info.commit = o.d.commit
                           /\ \A y \in Due(o.n) : x.pipe = y.pipe => x = y
                           /\ \A i \in Made(o.n) : builds'[i].pipe # x.pipe
    BY <1>1 DEF BuiltAsMeant, Unmoved
  <2>1. \A i \in Made(o.n) : builds'[i].pipe = builds[i].pipe /\ builds'[i].info = builds[i].info
    BY DEF Made, Unmoved
  <2>2. {builds'[i].pipe : i \in Made(o.n)} = {builds[i].pipe : i \in Made(o.n)}
    BY <2>1
  <2> QED BY <2>1, <2>2 DEF BuiltAsMeant
<1>5. StagesInv'
  BY DEF StagesInv, Unmoved
<1> QED BY <1>2, <1>3, <1>4, <1>5

\* The repositories, the store and the clones leave it alone.
LEMMA OtherSteps ==
  ASSUME TypeOK, NumberInv, StagesInv,
         \/ Repositories
         \/ \E p \in Pipeline : Delete(p) \/ \E def \in Definition : Register(p, def)
         \/ \E p \in Pipeline, req \in Request : RunRequest(p, req)
         \/ \E i \in DOMAIN builds : RunClone(i)
         \/ UNCHANGED vars
  PROVE  Unmoved
<1>1. requests \in Nat /\ (requests + 1) \in Nat /\ requests <= requests + 1
  BY DEF TypeOK
<1>2. CASE Repositories
  <2>1. UNCHANGED <<todo, builds, requests, owed>>
    BY <1>2 DEF Repositories, Push, DeleteBranch, PushTag, Propose
  <2>2. ASSUME NEW r \in Repo, NEW b \in Branch,
               \/ Push(r, b) \/ DeleteBranch(r, b) \/ PushTag(r)
               \/ \E head \in Repo, kind \in {"propose", "close"} : Propose(r, head, b, kind),
               NEW d \in sent', d.kind = "push"
        PROVE  d.branch \in Branch
    <3>1. CASE d \in sent
      BY <2>2, <3>1 DEF NumberInv
    <3>2. CASE d \notin sent
      BY <2>2, <3>2 DEF Push, DeleteBranch, PushTag, Propose, Send, Delivery
    <3> QED BY <3>1, <3>2
  <2>3. \A d \in sent' : d.kind = "push" => d.branch \in Branch
    BY <1>2, <2>2 DEF Repositories
  <2> QED BY <1>1, <2>1, <2>3 DEF Unmoved, NumberInv, StagesInv, Due
<1>3. ASSUME NEW p \in Pipeline, Delete(p) \/ \E def \in Definition : Register(p, def)
      PROVE  Unmoved
  <2>1. UNCHANGED <<todo, builds, requests, owed, sent>>
    BY <1>3 DEF Delete, Register
  <2> QED BY <1>1, <2>1 DEF Unmoved, NumberInv, StagesInv, Due
<1>4. ASSUME NEW p \in Pipeline, NEW req \in Request, RunRequest(p, req)
      PROVE  Unmoved
  <2> DEFINE x == [from |-> 0, pipe |-> p, stages |-> pipelines[p].stages,
                   info |-> [event |-> None, repo |-> req.repo, branch |-> req.branch,
                             commit |-> req.commit]]
  <2>1. /\ todo' = todo \cup {x} /\ x.from = 0 /\ x.stages = pipelines[p].stages
        /\ p \in DOMAIN pipelines
        /\ requests' = requests + 1 /\ UNCHANGED <<builds, owed, sent>>
    BY <1>4 DEF RunRequest, Room
  <2> HIDE DEF x
  <2>2. Valid(x.stages)
    BY <2>1, DefinitionOf
  <2>3. \A o \in owed : o.n # 0
    BY <1>1 DEF NumberInv
  <2>4. \A y \in todo : y.from \in Nat /\ y.from <= requests
    BY DEF TypeOK, Work, NumberInv
  <2>5. \A y \in todo' : y.from <= requests' /\ Valid(y.stages)
    BY <1>1, <2>1, <2>2, <2>4 DEF StagesInv
  <2>6. \A o \in owed : \A y : (y \in todo' /\ y.from = o.n) <=> y \in Due(o.n)
    BY <2>1, <2>3 DEF Due
  <2> QED BY <1>1, <2>1, <2>5, <2>6 DEF Unmoved, NumberInv
<1>5. ASSUME NEW i \in DOMAIN builds, RunClone(i)
      PROVE  Unmoved
  <2>1. UNCHANGED <<todo, requests, owed, sent>>
    BY <1>5 DEF RunClone
  <2>2. PICK c : builds' = [builds EXCEPT ![i].copy = c]
    BY <1>5 DEF RunClone
  <2>3. \A j \in DOMAIN builds : builds[j] \in Build
    BY ElementOfSeq, LenProperties DEF TypeOK
  <2>4. /\ DOMAIN builds' = DOMAIN builds
        /\ \A j \in DOMAIN builds :
             /\ builds'[j].from = builds[j].from /\ builds'[j].pipe = builds[j].pipe
             /\ builds'[j].info = builds[j].info
    BY <2>2, <2>3 DEF Build
  <2> QED BY <1>1, <2>1, <2>4 DEF Unmoved, NumberInv, StagesInv, Due
<1>6. CASE UNCHANGED vars
  BY <1>1, <1>6 DEF Unmoved, NumberInv, StagesInv, Due, vars
<1> QED BY <1>2, <1>3, <1>4, <1>5, <1>6

LEMMA DeliverStep ==
  ASSUME TypeOK, NumberInv, ClaimInv, StagesInv, BuiltAsMeant, NEW d \in sent, Deliver(d)
  PROVE  NumberInv' /\ ClaimInv' /\ StagesInv' /\ BuiltAsMeant'
<1>0. PICK n \in Nat : n = requests + 1
  BY DEF TypeOK
<1> DEFINE hits == {x \in (DOMAIN pipelines) \X Parse(d) : MatchPipeline(pipelines[x[1]], x[2])}
           work(x) == [from |-> n, pipe |-> x[1], stages |-> pipelines[x[1]].stages,
                       info |-> x[2]]
           new == {work(x) : x \in hits}
           due == [n |-> n, d |-> d,
                   pipes |-> {p \in DOMAIN pipelines : Meant(pipelines[p], d)},
                   open |-> {p \in DOMAIN pipelines : ~ Documented(pipelines[p])}]
<1>1. /\ todo' = todo \cup new /\ owed' = owed \cup {due} /\ requests' = n
      /\ UNCHANGED <<remote, commits, sent, pipelines, builds>>
  BY <1>0 DEF Deliver, Room
<1>2. requests \in Nat /\ n \in Nat /\ requests < n /\ d \in Deliveries
  BY <1>0 DEF TypeOK
<1>3. ASSUME NEW y \in new
      PROVE  /\ y.from = n /\ y.pipe \in DOMAIN pipelines
             /\ y.stages = pipelines[y.pipe].stages /\ Valid(y.stages)
             /\ y.info \in Parse(d) /\ y.info.commit = d.commit
             /\ MatchPipeline(pipelines[y.pipe], y.info)
             /\ \A z \in new : y.pipe = z.pipe => y = z
  <2>1. PICK x \in hits : y = work(x)
    OBVIOUS
  <2>2. /\ x[1] \in DOMAIN pipelines /\ x[2] \in Parse(d)
        /\ MatchPipeline(pipelines[x[1]], x[2])
    OBVIOUS
  <2>3. Parse(d) = {x[2]} /\ x[2].commit = d.commit /\ Valid(pipelines[x[1]].stages)
    BY <1>2, <2>2, ParsedInfo, DefinitionOf
  <2>4. ASSUME NEW z \in new, y.pipe = z.pipe
        PROVE  y = z
    <3>1. PICK w \in hits : z = work(w)
      OBVIOUS
    <3>2. w[2] \in Parse(d)
      OBVIOUS
    <3>3. w[1] = x[1] /\ w[2] = x[2]
      BY <2>1, <2>3, <2>4, <3>1, <3>2
    <3> HIDE DEF hits, new
    <3> QED BY <2>1, <3>1, <3>3
  <2> HIDE DEF hits, new
  <2> QED BY <2>1, <2>2, <2>3, <2>4
<1>4. ASSUME NEW p \in DOMAIN pipelines, NEW info \in Parse(d), MatchPipeline(pipelines[p], info)
      PROVE  \E y \in new : y.pipe = p
  <2>1. <<p, info>> \in hits
    BY <1>4
  <2>2. work(<<p, info>>) \in new /\ work(<<p, info>>).pipe = p
    BY <2>1
  <2> HIDE DEF hits, new
  <2> QED BY <2>2
<1>5. due.n = n /\ due.d = d
  OBVIOUS
<1>6. /\ due.pipes = {p \in DOMAIN pipelines : Meant(pipelines[p], d)}
      /\ due.open = {p \in DOMAIN pipelines : ~ Documented(pipelines[p])}
  OBVIOUS
<1> HIDE DEF hits, work, new, due
<1>7. /\ \A o \in owed : o.n \in Nat /\ o.n <= requests
      /\ \A x \in todo : x.from \in Nat /\ x.from <= requests
      /\ \A i \in DOMAIN builds : builds[i].from \in Nat /\ builds[i].from <= requests
  <2>1. \A i \in DOMAIN builds : builds[i] \in Build
    BY ElementOfSeq, LenProperties DEF TypeOK
  <2> QED BY <2>1 DEF TypeOK, Work, Build, NumberInv
<1>8. ASSUME NEW o \in owed
      PROVE  Made(o.n)' = Made(o.n) /\ Due(o.n)' = Due(o.n)
  <2>1. Made(o.n)' = Made(o.n)
    BY <1>1 DEF Made
  <2>2. \A y \in new : y.from # o.n
    BY <1>2, <1>3, <1>7
  <2> QED BY <1>1, <2>1, <2>2 DEF Due
<1>9. Made(n)' = {} /\ Due(n)' = new
  <2>1. Made(n)' = {}
    BY <1>1, <1>2, <1>7 DEF Made
  <2>2. \A x \in todo : x.from # n
    BY <1>2, <1>7
  <2> QED BY <1>1, <1>3, <2>1, <2>2 DEF Due
<1>10. NumberInv'
  <2>1. /\ \A x \in todo' : x.from <= requests'
        /\ \A i \in DOMAIN builds' : builds'[i].from <= requests'
    BY <1>1, <1>2, <1>3, <1>7
  <2>2. \A o \in owed' : o.n \in 1 .. requests'
    <3>1. \A o \in owed : o.n \in 1 .. requests'
      BY <1>1, <1>2 DEF NumberInv
    <3>2. due.n \in 1 .. requests'
      BY <1>0, <1>1, <1>2, <1>5
    <3> QED BY <1>1, <3>1, <3>2
  <2> QED BY <1>1, <2>1, <2>2 DEF NumberInv
<1>11. ClaimInv'
  <2>1. ASSUME NEW o \in owed
        PROVE  /\ \A x \in Due(o.n)' : x.info \in Parse(o.d)
               /\ \A i \in Made(o.n)' : builds'[i].info \in Parse(o.d)
    BY <1>1, <1>8 DEF ClaimInv
  <2>2. ASSUME NEW o, o = due
        PROVE  /\ \A x \in Due(o.n)' : x.info \in Parse(o.d)
               /\ \A i \in Made(o.n)' : builds'[i].info \in Parse(o.d)
    <3>1. o.n = n /\ o.d = d
      BY <1>5, <2>2
    <3> QED BY <1>3, <1>9, <3>1
  <2> QED BY <1>1, <2>1, <2>2 DEF ClaimInv
<1>12. StagesInv'
  BY <1>1, <1>3 DEF StagesInv
<1>13. BuiltAsMeant'
  <2> DEFINE Right(o, made, owing) ==
               /\ ({builds[i].pipe : i \in made} \cup {x.pipe : x \in owing}) \ o.open = o.pipes
               /\ \A i \in made :
                    /\ builds[i].info.commit = o.d.commit
                    /\ \A j \in made : builds[i].pipe = builds[j].pipe => i = j
               /\ \A x \in owing :
                    /\ x.info.commit = o.d.commit
                    /\ \A y \in owing : x.pipe = y.pipe => x = y
                    /\ \A i \in made : builds[i].pipe # x.pipe
  <2>1. \A o \in owed : Right(o, Made(o.n), Due(o.n))
    BY DEF BuiltAsMeant
  <2>2. Right(due, {}, new)
    <3>1. {x.pipe : x \in new} \ due.open = due.pipes
      <4>1. ASSUME NEW x \in new, x.pipe \notin due.open
            PROVE  x.pipe \in due.pipes
        BY <1>2, <1>3, <1>6, <4>1, MatchIsMeant
      <4>2. ASSUME NEW p \in due.pipes
            PROVE  p \notin due.open /\ \E x \in new : x.pipe = p
        <5>1. p \in DOMAIN pipelines /\ Meant(pipelines[p], d)
          BY <1>6
        <5>2. Documented(pipelines[p])
          BY <5>1 DEF Meant
        <5>3. PICK info \in Parse(d) : MatchPipeline(pipelines[p], info)
          BY <1>2, <5>1, <5>2, MatchIsMeant
        <5> QED BY <1>4, <1>6, <5>1, <5>2, <5>3
      <4> QED BY <4>1, <4>2
    <3> QED BY <1>3, <1>5, <3>1
  <2> HIDE DEF Right
  <2>3. ASSUME NEW o \in owed'
        PROVE  Right(o, Made(o.n)', Due(o.n)')
    <3>1. CASE o \in owed
      BY <1>8, <2>1, <3>1
    <3>2. CASE o = due
      <4>1. o.n = n
        BY <1>5, <3>2
      <4> QED BY <1>9, <2>2, <3>2, <4>1
    <3> QED BY <1>1, <3>1, <3>2
  <2> USE DEF Right
  <2> QED BY <1>1, <2>3 DEF BuiltAsMeant
<1> QED BY <1>10, <1>11, <1>12, <1>13

\* What CreateBuild adds.
LEMMA Created ==
  ASSUME TypeOK, NEW x \in todo, CreateBuild(x)
  PROVE  \E k \in Nat :
           /\ k \notin DOMAIN builds /\ DOMAIN builds' = DOMAIN builds \cup {k}
           /\ \A i \in DOMAIN builds : builds'[i] = builds[i]
           /\ builds'[k] =
                [from |-> x.from, pipe |-> x.pipe, info |-> x.info, copy |-> None,
                 stages |-> IF x.info.repo = <<>> THEN x.stages ELSE WithClone(x.stages)]
<1> DEFINE k == Len(builds) + 1
           b == [from |-> x.from, pipe |-> x.pipe, info |-> x.info, copy |-> None,
                 stages |-> IF x.info.repo = <<>> THEN x.stages ELSE WithClone(x.stages)]
<1>1. builds' = Append(builds, b)
  BY DEF CreateBuild
<1> HIDE DEF b
<1>2. Len(builds) \in Nat /\ DOMAIN builds = 1 .. Len(builds) /\ builds \in Seq(Build \cup {b})
  BY LenProperties DEF TypeOK
<1>3. /\ builds' \in Seq(Build \cup {b}) /\ Len(builds') = k
      /\ \A i \in 1 .. Len(builds) : builds'[i] = builds[i]
      /\ builds'[k] = b
  BY <1>1, <1>2, AppendProperties
<1>4. DOMAIN builds' = 1 .. k
  BY <1>3, LenProperties
<1>5. k \in Nat /\ k \notin DOMAIN builds /\ DOMAIN builds' = DOMAIN builds \cup {k}
  BY <1>2, <1>4
<1> HIDE DEF k
<1> QED BY <1>2, <1>3, <1>5 DEF b

LEMMA CreateBuildStep ==
  ASSUME TypeOK, NumberInv, ClaimInv, StagesInv, BuiltAsMeant, NEW x \in todo, CreateBuild(x)
  PROVE  NumberInv' /\ ClaimInv' /\ StagesInv' /\ BuiltAsMeant'
<1>1. todo' = todo \ {x} /\ UNCHANGED <<sent, requests, owed>>
  BY DEF CreateBuild
<1>2. PICK k \in Nat :
        /\ k \notin DOMAIN builds /\ DOMAIN builds' = DOMAIN builds \cup {k}
        /\ \A i \in DOMAIN builds : builds'[i] = builds[i]
        /\ builds'[k].from = x.from /\ builds'[k].pipe = x.pipe /\ builds'[k].info = x.info
  <2> DEFINE b == [from |-> x.from, pipe |-> x.pipe, info |-> x.info, copy |-> None,
                   stages |-> IF x.info.repo = <<>> THEN x.stages ELSE WithClone(x.stages)]
  <2>1. PICK k \in Nat :
          /\ k \notin DOMAIN builds /\ DOMAIN builds' = DOMAIN builds \cup {k}
          /\ \A i \in DOMAIN builds : builds'[i] = builds[i]
          /\ builds'[k] = b
    BY Created
  <2>2. b.from = x.from /\ b.pipe = x.pipe /\ b.info = x.info
    OBVIOUS
  <2> HIDE DEF b
  <2> QED BY <2>1, <2>2
<1>3. ASSUME NEW n
      PROVE  /\ x.from # n => Made(n)' = Made(n) /\ Due(n)' = Due(n)
             /\ x.from = n => Made(n)' = Made(n) \cup {k} /\ Due(n)' = Due(n) \ {x}
             /\ x.from = n => x \in Due(n)
             /\ Made(n) \subseteq DOMAIN builds
  BY <1>1, <1>2 DEF Made, Due
<1>4. NumberInv'
  BY <1>1, <1>2 DEF NumberInv
<1>5. StagesInv'
  BY <1>1 DEF StagesInv
<1>6. ClaimInv'
  <2> SUFFICES ASSUME NEW o \in owed
               PROVE  /\ \A y \in Due(o.n)' : y.info \in Parse(o.d)
                      /\ \A i \in Made(o.n)' : builds'[i].info \in Parse(o.d)
    BY <1>1 DEF ClaimInv
  <2>1. /\ \A y \in Due(o.n) : y.info \in Parse(o.d)
        /\ \A i \in Made(o.n) : builds[i].info \in Parse(o.d)
    BY DEF ClaimInv
  <2> QED BY <1>2, <1>3, <2>1
<1>7. BuiltAsMeant'
  <2> SUFFICES ASSUME NEW o \in owed
               PROVE  /\ ({builds'[i].pipe : i \in Made(o.n)'} \cup {y.pipe : y \in Due(o.n)'})
                            \ o.open = o.pipes
                      /\ \A i \in Made(o.n)' :
                           /\ builds'[i].info.commit = o.d.commit
                           /\ \A j \in Made(o.n)' : builds'[i].pipe = builds'[j].pipe => i = j
                      /\ \A y \in Due(o.n)' :
                           /\ y.info.commit = o.d.commit
                           /\ \A z \in Due(o.n)' : y.pipe = z.pipe => y = z
                           /\ \A i \in Made(o.n)' : builds'[i].pipe # y.pipe
    BY <1>1 DEF BuiltAsMeant
  <2> DEFINE made == Made(o.n)
             owing == Due(o.n)
  <2>1. /\ ({builds[i].pipe : i \in made} \cup {y.pipe : y \in owing}) \ o.open = o.pipes
        /\ \A i \in made :
             /\ builds[i].info.commit = o.d.commit
             /\ \A j \in made : builds[i].pipe = builds[j].pipe => i = j
        /\ \A y \in owing :
             /\ y.info.commit = o.d.commit
             /\ \A z \in owing : y.pipe = z.pipe => y = z
             /\ \A i \in made : builds[i].pipe # y.pipe
    BY DEF BuiltAsMeant
  <2>2. made \subseteq DOMAIN builds /\ k \notin made
    BY <1>2, <1>3
  <2>3. \A i \in made : builds'[i] = builds[i]
    BY <1>2, <2>2
  <2>4. CASE x.from # o.n
    <3>1. Made(o.n)' = made /\ Due(o.n)' = owing
      BY <1>3, <2>4
    <3>2. {builds'[i].pipe : i \in made} = {builds[i].pipe : i \in made}
      BY <2>3
    <3> HIDE DEF made, owing
    <3> QED BY <2>1, <2>3, <3>1, <3>2
  <2>5. CASE x.from = o.n
    <3>1. Made(o.n)' = made \cup {k} /\ Due(o.n)' = owing \ {x} /\ x \in owing
      BY <1>3, <2>5
    <3> HIDE DEF made, owing
    <3>2. {builds'[i].pipe : i \in made \cup {k}} \cup {y.pipe : y \in owing \ {x}}
            = {builds[i].pipe : i \in made} \cup {y.pipe : y \in owing}
      <4>1. {builds'[i].pipe : i \in made \cup {k}} = {builds[i].pipe : i \in made} \cup {x.pipe}
        BY <1>2, <2>3
      <4>2. {y.pipe : y \in owing \ {x}} \cup {x.pipe} = {y.pipe : y \in owing}
        BY <3>1
      <4> QED BY <4>1, <4>2
    <3>3. \A i \in made \cup {k} : \A j \in made \cup {k} :
            builds'[i].pipe = builds'[j].pipe => i = j
      BY <1>2, <2>1, <2>3, <3>1
    <3>4. \A i \in made \cup {k} : builds'[i].info.commit = o.d.commit
      BY <1>2, <2>1, <2>3, <3>1
    <3>5. \A y \in owing \ {x} :
            /\ y.info.commit = o.d.commit
            /\ \A z \in owing \ {x} : y.pipe = z.pipe => y = z
            /\ \A i \in made \cup {k} : builds'[i].pipe # y.pipe
      BY <1>2, <2>1, <2>3, <3>1
    <3> QED BY <2>1, <3>1, <3>2, <3>3, <3>4, <3>5
  <2> QED BY <2>4, <2>5
<1> QED BY <1>4, <1>5, <1>6, <1>7

LEMMA TriggerInit == Init => TriggerInv
<1> SUFFICES ASSUME Init
             PROVE  TriggerInv
  OBVIOUS
<1>1. sent = {} /\ todo = {} /\ builds = <<>> /\ owed = {}
  BY DEF Init
<1>2. NumberInv /\ ClaimInv /\ StagesInv /\ BuiltAsMeant
  BY <1>1 DEF NumberInv, ClaimInv, StagesInv, BuiltAsMeant
<1> QED BY <1>2, TypeInit DEF TriggerInv

LEMMA TriggerStep == TriggerInv /\ [Next]_vars => TriggerInv'
<1> SUFFICES ASSUME TriggerInv, [Next]_vars
             PROVE  TriggerInv'
  OBVIOUS
<1>1. TypeOK'
  BY TypeStep DEF TriggerInv
<1>2. ASSUME NEW d \in sent, Deliver(d)
      PROVE  NumberInv' /\ ClaimInv' /\ StagesInv' /\ BuiltAsMeant'
  BY <1>2, DeliverStep DEF TriggerInv
<1>3. ASSUME NEW x \in todo, CreateBuild(x)
      PROVE  NumberInv' /\ ClaimInv' /\ StagesInv' /\ BuiltAsMeant'
  BY <1>3, CreateBuildStep DEF TriggerInv
<1>4. CASE \/ Repositories
           \/ \E p \in Pipeline : Delete(p) \/ \E def \in Definition : Register(p, def)
           \/ \E p \in Pipeline, req \in Request : RunRequest(p, req)
           \/ \E i \in DOMAIN builds : RunClone(i)
           \/ UNCHANGED vars
  <2>1. TypeOK /\ NumberInv /\ ClaimInv /\ StagesInv /\ BuiltAsMeant
    BY DEF TriggerInv
  <2>2. Unmoved
    BY <1>4, <2>1, OtherSteps
  <2> QED BY <1>1, <2>1, <2>2, UnmovedStep DEF TriggerInv
<1> QED BY <1>1, <1>2, <1>3, <1>4 DEF TriggerInv, Next, Handlers

LEMMA TriggerInvHolds == Spec => []TriggerInv
BY TriggerInit, TriggerStep, PTL DEF Spec

\* A delivery gets one build of every pipeline it is meant for, whatever is sent,
\* registered, deleted and created meanwhile (dispatch, handlers.go).
THEOREM BuiltAsMeantHolds == Spec => []BuiltAsMeant
<1>1. TriggerInv => BuiltAsMeant
  BY DEF TriggerInv
<1> QED BY <1>1, TriggerInvHolds, PTL

-----------------------------------------------------------------------------
(***************************************************************************)
(* The clone stage comes first.                                            *)
(***************************************************************************)
LEMMA DepsAt ==
  ASSUME NEW stages, UniqueNames(stages), NEW i \in DOMAIN stages
  PROVE  DepsOf(stages, stages[i].name) = stages[i].deps
<1>1. {j \in DOMAIN stages : stages[j].name = stages[i].name} = {i}
  BY DEF UniqueNames
<1>2. {stages[j].deps : j \in {i}} = {stages[i].deps}
  OBVIOUS
<1> QED BY <1>1, <1>2 DEF DepsOf

\* The names and the dependencies with the clone in front.
LEMMA ClonedDeps ==
  ASSUME NEW stages, Valid(stages), UniqueNames(WithClone(stages))
  PROVE  /\ Names(WithClone(stages)) = Names(stages) \cup {"clone"}
         /\ "clone" \notin Names(stages)
         /\ DepsOf(WithClone(stages), "clone") = {}
         /\ \A s \in Names(stages) :
              DepsOf(WithClone(stages), s) =
                IF DepsOf(stages, s) = {} THEN {"clone"} ELSE DepsOf(stages, s)
<1> DEFINE all == WithClone(stages)
           n == Len(stages)
<1>1. stages \in Seq(Stage) /\ UniqueNames(stages)
  BY DEF Valid
<1>2. n \in Nat /\ DOMAIN stages = 1 .. n /\ \A i \in 1 .. n : stages[i] \in Stage
  BY <1>1, LenProperties, ElementOfSeq
<1>3. /\ all \in Seq(BuildStage) /\ Len(all) = n + 1
      /\ all[1] = [name |-> "clone", deps |-> {}]
      /\ \A i \in 1 .. n : all[i + 1] =
           IF stages[i].deps = {} THEN [stages[i] EXCEPT !.deps = {"clone"}] ELSE stages[i]
  BY <1>1, WithCloneIs
<1> HIDE DEF all, n
<1>4. DOMAIN all = 1 .. n + 1
  BY <1>3, LenProperties
<1>5. all[1].name = "clone" /\ all[1].deps = {}
  BY <1>3
<1>6. \A i \in 1 .. n :
        /\ all[i + 1].name = stages[i].name
        /\ all[i + 1].deps = IF stages[i].deps = {} THEN {"clone"} ELSE stages[i].deps
  BY <1>2, <1>3 DEF Stage
<1>7. 1 \in DOMAIN all /\ \A i \in 1 .. n : i + 1 \in DOMAIN all /\ i + 1 # 1
  BY <1>2, <1>4
<1>8. UniqueNames(all)
  BY DEF all
<1>9. "clone" \notin Names(stages)
  BY <1>2, <1>5, <1>6, <1>7, <1>8 DEF Names, UniqueNames
<1>10. Names(all) = Names(stages) \cup {"clone"}
  <2>1. \A j \in DOMAIN all : j = 1 \/ (j - 1 \in 1 .. n /\ (j - 1) + 1 = j)
    BY <1>2, <1>4
  <2>2. ASSUME NEW j \in DOMAIN all
        PROVE  all[j].name \in Names(stages) \cup {"clone"}
    <3>1. CASE j = 1
      BY <1>5, <3>1
    <3>2. CASE j # 1
      <4>1. j - 1 \in 1 .. n /\ (j - 1) + 1 = j
        BY <2>1, <3>2
      <4>2. all[j].name = stages[j - 1].name
        BY <1>6, <4>1
      <4> QED BY <1>2, <4>1, <4>2 DEF Names
    <3> QED BY <3>1, <3>2
  <2>3. ASSUME NEW i \in 1 .. n
        PROVE  stages[i].name \in Names(all)
    BY <1>6, <1>7 DEF Names
  <2>4. "clone" \in Names(all)
    BY <1>5, <1>7 DEF Names
  <2> QED BY <1>2, <2>2, <2>3, <2>4 DEF Names
<1>11. DepsOf(all, "clone") = {}
  BY <1>5, <1>7, <1>8, DepsAt
<1>12. ASSUME NEW s \in Names(stages)
       PROVE  DepsOf(all, s) = IF DepsOf(stages, s) = {} THEN {"clone"} ELSE DepsOf(stages, s)
  <2>1. PICK i \in 1 .. n : stages[i].name = s
    BY <1>2 DEF Names
  <2>2. DepsOf(stages, s) = stages[i].deps
    BY <1>1, <1>2, <2>1, DepsAt
  <2>3. DepsOf(all, s) = all[i + 1].deps
    <3>1. DepsOf(all, all[i + 1].name) = all[i + 1].deps
      BY <1>7, <1>8, DepsAt
    <3> QED BY <1>6, <2>1, <3>1
  <2> QED BY <1>6, <2>2, <2>3
<1> QED BY <1>9, <1>10, <1>11, <1>12 DEF all

LEMMA ClonedOrder ==
  ASSUME NEW stages, Valid(stages), UniqueNames(WithClone(stages))
  PROVE  /\ \A S \in (SUBSET Names(WithClone(stages))) \ {{}} :
              (\A s \in S : DepsOf(WithClone(stages), s) \subseteq S) => "clone" \in S
         /\ NoCycle(WithClone(stages))
<1> DEFINE all == WithClone(stages)
           deps(s) == DepsOf(stages, s)
           now(s) == DepsOf(all, s)
<1>1. /\ Names(all) = Names(stages) \cup {"clone"} /\ "clone" \notin Names(stages)
      /\ now("clone") = {}
      /\ \A s \in Names(stages) : now(s) = IF deps(s) = {} THEN {"clone"} ELSE deps(s)
  BY ClonedDeps
<1>2. ASSUME NEW S \in (SUBSET Names(stages)) \ {{}}
      PROVE  \E s \in S : deps(s) \cap S = {}
  BY DEF Valid, NoCycle
<1>3. NoCycle(all) <=>
        \A S \in (SUBSET Names(all)) \ {{}} : \E s \in S : now(s) \cap S = {}
  BY DEF NoCycle
<1> HIDE DEF all, deps, now
<1>4. ASSUME NEW S \in (SUBSET Names(all)) \ {{}}, "clone" \notin S
      PROVE  \E s \in S : now(s) \cap S = {} /\ now(s) # {}
  <2>1. S \in (SUBSET Names(stages)) \ {{}}
    BY <1>1, <1>4
  <2>2. PICK s \in S : deps(s) \cap S = {}
    BY <1>2, <2>1
  <2>3. s \in Names(stages)
    BY <2>1
  <2> QED BY <1>1, <1>4, <2>2, <2>3
<1>5. ASSUME NEW S \in (SUBSET Names(all)) \ {{}}, \A s \in S : now(s) \subseteq S
      PROVE  "clone" \in S
  BY <1>4, <1>5
<1>6. NoCycle(all)
  <2>1. ASSUME NEW S \in (SUBSET Names(all)) \ {{}}
        PROVE  \E s \in S : now(s) \cap S = {}
    BY <1>1, <1>4
  <2> QED BY <1>3, <2>1
<1> QED BY <1>5, <1>6 DEF all, now

\* In a build that starts with the clone every other stage comes after it
\* (injectImplicitClone, store.go), whatever stages a valid pipeline has.
THEOREM CloneComesFirstHolds == Spec => CloneComesFirst
<1> DEFINE Ordered ==
      \A i \in (DOMAIN builds') \ DOMAIN builds :
        LET stages == builds'[i].stages IN
        builds'[i].info.repo # <<>> /\ UniqueNames(stages) =>
          /\ \A S \in (SUBSET Names(stages)) \ {{}} :
               (\A s \in S : DepsOf(stages, s) \subseteq S) => "clone" \in S
          /\ NoCycle(stages)
<1>1. ASSUME TriggerInv, [Next]_vars
      PROVE  Ordered
  <2>1. TypeOK /\ NumberInv /\ StagesInv
    BY <1>1 DEF TriggerInv
  <2>2. ASSUME NEW x \in todo, CreateBuild(x)
        PROVE  Ordered
    <3> DEFINE b == [from |-> x.from, pipe |-> x.pipe, info |-> x.info, copy |-> None,
                     stages |-> IF x.info.repo = <<>> THEN x.stages ELSE WithClone(x.stages)]
    <3>1. PICK k \in Nat : DOMAIN builds' = DOMAIN builds \cup {k} /\ builds'[k] = b
      BY <2>1, <2>2, Created
    <3>2. b.info.repo # <<>> => b.stages = WithClone(x.stages)
      OBVIOUS
    <3>3. Valid(x.stages)
      BY <2>1 DEF StagesInv
    <3> HIDE DEF b
    <3>4. ASSUME NEW i \in (DOMAIN builds') \ DOMAIN builds,
                 builds'[i].info.repo # <<>>, UniqueNames(builds'[i].stages)
          PROVE  /\ \A S \in (SUBSET Names(builds'[i].stages)) \ {{}} :
                      (\A s \in S : DepsOf(builds'[i].stages, s) \subseteq S) => "clone" \in S
                 /\ NoCycle(builds'[i].stages)
      <4>1. builds'[i].stages = WithClone(x.stages)
        BY <3>1, <3>2, <3>4
      <4> QED BY <3>3, <3>4, <4>1, ClonedOrder
    <3> QED BY <3>4
  <2>3. ASSUME NEW d \in sent, Deliver(d)
        PROVE  Ordered
    BY <2>3 DEF Deliver
  <2>4. CASE \/ Repositories
             \/ \E p \in Pipeline : Delete(p) \/ \E def \in Definition : Register(p, def)
             \/ \E p \in Pipeline, req \in Request : RunRequest(p, req)
             \/ \E i \in DOMAIN builds : RunClone(i)
             \/ UNCHANGED vars
    <3>1. Unmoved
      BY <2>1, <2>4, OtherSteps
    <3> QED BY <3>1 DEF Unmoved
  <2> QED BY <1>1, <2>2, <2>3, <2>4 DEF Next, Handlers
<1> QED BY <1>1, TriggerInvHolds, PTL DEF Spec, CloneComesFirst, vars

-----------------------------------------------------------------------------
(***************************************************************************)
(* The clone of a push.                                                    *)
(***************************************************************************)
LEMMA HistoryOf ==
  ASSUME NEW r \in Repo, NEW b \in Branch
  PROVE  History(CloneURL(r), b) = remote[r][b]
<1> DEFINE c == CHOOSE x \in Repo : About(CloneURL(r), x)
<1>1. About(CloneURL(r), r)
  BY SentAddress, RepoAssumption
<1>2. c \in Repo /\ About(CloneURL(r), c)
  BY <1>1
<1>3. b # ""
  BY RepoAssumption
<1>4. History(CloneURL(r), b) = remote[c][b]
  BY <1>1, <1>3 DEF History
<1> HIDE DEF c
<1>5. c = r
  BY <1>2, AboutOne
<1> QED BY <1>4, <1>5

LEMMA ClonePush ==
  ASSUME NEW d \in Deliveries, d.branch \in Branch,
         d.commit \in Range(Recent(remote[d.repo][d.branch]))
  PROVE  GitClone(TriggerInfo("push", d.repo, d)) = d.commit
<1> DEFINE info == TriggerInfo("push", d.repo, d)
           got == Recent(remote[d.repo][d.branch])
<1>1. info.repo = CloneURL(d.repo) /\ info.branch = d.branch /\ info.commit = d.commit
  BY DEF TriggerInfo
<1>2. d.repo \in Repo
  BY DEF Deliveries
<1> HIDE DEF info
<1>3. Recent(History(info.repo, info.branch)) = got
  BY <1>1, <1>2, HistoryOf
<1> HIDE DEF got
<1>4. d.commit \in Range(got)
  BY DEF got
<1>5. got # <<>>
  BY <1>4 DEF Range
<1>6. GitClone(info) = d.commit
  BY <1>1, <1>3, <1>4, <1>5 DEF GitClone
<1> QED BY <1>6 DEF info

\* The build of a push works on the commit that was pushed, as long as the clone
\* still brings it (gitclone.go), whatever the branch has become since.
THEOREM PushIsTestedHolds == Spec => PushIsTested
<1> DEFINE Tested ==
      \A i \in DOMAIN builds : \A o \in owed :
        LET was == builds[i] IN
        /\ was.copy = None /\ builds'[i].copy \notin {None, UserStep}
        /\ o.n = was.from /\ o.d.kind = "push"
        /\ o.d.commit \in Range(Recent(remote[o.d.repo][o.d.branch]))
        => builds'[i].copy = o.d.commit
<1>1. ASSUME TriggerInv, [Next]_vars
      PROVE  Tested
  <2> SUFFICES ASSUME NEW i \in DOMAIN builds, NEW o \in owed,
                      builds[i].copy = None, builds'[i].copy \notin {None, UserStep},
                      o.n = builds[i].from, o.d.kind = "push",
                      o.d.commit \in Range(Recent(remote[o.d.repo][o.d.branch]))
               PROVE  builds'[i].copy = o.d.commit
    OBVIOUS
  <2>1. TypeOK /\ NumberInv /\ ClaimInv
    BY <1>1 DEF TriggerInv
  <2>2. o.d \in Deliveries /\ o.d.branch \in Branch
    <3>1. o.d \in sent /\ sent \subseteq Deliveries
      BY <2>1 DEF TypeOK
    <3> QED BY <2>1, <3>1 DEF NumberInv
  <2>3. builds[i].info = TriggerInfo("push", o.d.repo, o.d)
    <3>1. builds[i].info \in Parse(o.d)
      BY <2>1 DEF ClaimInv, Made
    <3> QED BY <2>2, <3>1, ParsedInfo
  <2>4. builds[i] \in Build
    BY <2>1, ElementOfSeq, LenProperties DEF TypeOK
  <2>5. ASSUME NEW j \in DOMAIN builds, RunClone(j)
        PROVE  builds'[i].copy = o.d.commit
    <3> DEFINE c == IF "clone" \in Names(pipelines[builds[j].pipe].stages)
                      THEN UserStep ELSE GitClone(builds[j].info)
    <3>1. builds' = [builds EXCEPT ![j].copy = c]
      BY <2>5 DEF RunClone
    <3>2. CASE j = i
      <4>1. builds'[i].copy = c
        <5> HIDE DEF c
        <5> QED BY <2>4, <3>1, <3>2 DEF Build
      <4>2. c = GitClone(builds[i].info)
        BY <3>2, <4>1
      <4>3. GitClone(builds[i].info) = o.d.commit
        BY <2>2, <2>3, ClonePush
      <4> HIDE DEF c
      <4> QED BY <4>1, <4>2, <4>3
    <3>3. CASE j # i
      <4> HIDE DEF c
      <4>1. builds'[i] = builds[i]
        BY <3>1, <3>3
      <4> QED BY <4>1
    <3> QED BY <3>2, <3>3
  <2>6. ASSUME NEW x \in todo, CreateBuild(x)
        PROVE  builds'[i] = builds[i]
    BY <2>1, <2>6, Created
  <2>7. CASE \/ Repositories
             \/ \E p \in Pipeline : Delete(p) \/ \E def \in Definition : Register(p, def)
             \/ \E d \in sent : Deliver(d)
             \/ \E p \in Pipeline, req \in Request : RunRequest(p, req)
             \/ UNCHANGED vars
    BY <2>7 DEF Repositories, Push, DeleteBranch, PushTag, Propose, Delete, Register,
               Deliver, RunRequest, vars
  <2> QED BY <1>1, <2>5, <2>6, <2>7 DEF Next, Handlers
<1> QED BY <1>1, TriggerInvHolds, PTL DEF Spec, PushIsTested
=============================================================================
