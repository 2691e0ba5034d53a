--------------------------- MODULE ParseAddrProof ---------------------------
(***************************************************************************)
(* parse_addr against its reference: a text that stands for an address is  *)
(* parsed to it (ParseComplete), and what is accepted of a text of any     *)
(* length, with a host and a port, is what the text stands for             *)
(* (ParseSound).  The argument needs that strrchr finds the last place of  *)
(* a character, and so that a set of numbers has a least element.          *)
(***************************************************************************)
EXTENDS ParseAddr, SequenceTheorems, WellFoundedInduction, TLAPS

(* strrchr finds the last place of a character ...                         *)
LEMMA LastPlace ==
  ASSUME NEW s \in Seq(Tokens), NEW c, NEW k \in 1..Len(s), s[k] = c,
         \A j \in 1..Len(s) : s[j] = c => j <= k
  PROVE  strrchr(s, c) = k
<1> DEFINE at == {i \in 1..Len(s) : s[i] = c}
<1>1. k \in at /\ \A j \in at : j <= k
  OBVIOUS
<1>2. \A i \in at : (\A j \in at : j <= i) => i = k
  BY <1>1
<1>3. strrchr(s, c) = CHOOSE i \in at : \A j \in at : j <= i
  BY <1>1 DEF strrchr
<1> HIDE DEF at
<1> QED BY <1>1, <1>2, <1>3

(* ... and returns NULL when there is none.                                *)
LEMMA NoPlace ==
  ASSUME NEW s \in Seq(Tokens), NEW c, \A j \in 1..Len(s) : s[j] # c
  PROVE  strrchr(s, c) = 0
BY DEF strrchr


(* A set of numbers that is not empty has a least one.                     *)
LEMMA NatMin ==
  ASSUME NEW T \in SUBSET Nat, T # {}
  PROVE  \E x \in T : \A y \in T : x <= y
<1> DEFINE R == {ss \in Nat \X Nat : ss[1] < ss[2]}
<1>1. IsWellFoundedOn(R, Nat)
  BY NatLessThanWellFounded DEF OpToRel
<1> HIDE DEF R
<1>2. PICK x \in T : \A y \in T : ~ (<<y, x>> \in R)
  <2>1. T \subseteq Nat OBVIOUS
  <2> QED BY <1>1, <2>1, WFMin, Zenon
<1>3. ASSUME NEW y \in T PROVE x <= y
  <2>1. ~ (<<y, x>> \in R) BY <1>2
  <2>2. x \in Nat /\ y \in Nat OBVIOUS
  <2>3. y < x => <<y, x>> \in R BY <2>2 DEF R
  <2> QED BY <2>1, <2>2, <2>3
<1> QED BY <1>3

(* What strrchr returns. *)
LEMMA PlaceOf ==
  ASSUME NEW s \in Seq(Tokens), NEW c
  PROVE  \/ strrchr(s, c) = 0 /\ \A j \in 1..Len(s) : s[j] # c
         \/ /\ strrchr(s, c) \in 1..Len(s) /\ s[strrchr(s, c)] = c
            /\ \A j \in 1..Len(s) : s[j] = c => j <= strrchr(s, c)
<1>1. CASE \A j \in 1..Len(s) : s[j] # c
  BY <1>1, NoPlace
<1>2. ASSUME NEW i \in 1..Len(s), s[i] = c
      PROVE  /\ strrchr(s, c) \in 1..Len(s) /\ s[strrchr(s, c)] = c
             /\ \A j \in 1..Len(s) : s[j] = c => j <= strrchr(s, c)
  <2> DEFINE T == {n \in Nat : n < Len(s) /\ s[Len(s) - n] = c}
  <2>0. Len(s) \in Nat OBVIOUS
  <2>1. Len(s) - i \in T
    BY <1>2, <2>0
  <2>2. PICK x \in T : \A y \in T : x <= y
    BY <2>1, NatMin
  <2>3. PICK k \in 1..Len(s) : k = Len(s) - x
    BY <2>0, <2>2
  <2>4. s[k] = c
    BY <2>2, <2>3
  <2>5. ASSUME NEW j \in 1..Len(s), s[j] = c
        PROVE  j <= k
    <3>1. Len(s) - j \in T
      BY <2>0, <2>5
    <3> QED BY <2>0, <2>2, <2>3, <3>1
  <2>6. strrchr(s, c) = k
    BY <2>4, <2>5, LastPlace
  <2> QED BY <2>4, <2>5, <2>6
<1> QED BY <1>1, <1>2

-----------------------------------------------------------------------------
(* Texts: their parts and how they are joined. *)

(* The words of the grammar are texts.                                     *)
LEMMA Literals ==
  /\ <<"[">> \in Seq(Tokens) /\ <<"]">> \in Seq(Tokens) /\ << >> \in Seq(Tokens)
  /\ <<":", "num">> \in Seq(Tokens) /\ <<"%", "eth">> \in Seq(Tokens)
  /\ <<"v4">> \in Seq(Tokens) /\ <<"eth">> \in Seq(Tokens) /\ <<"%">> \in Seq(Tokens)
  /\ <<":">> \in Seq(Tokens) /\ <<"num">> \in Seq(Tokens)
  /\ \A h \in V6Texts : h \in Seq(Tokens)
<1>1. \A c \in Tokens : <<c>> \in Seq(Tokens)
  OBVIOUS
<1>2. \A c, d \in Tokens : <<c, d>> \in Seq(Tokens)
  OBVIOUS
<1>3. \A c, d, e \in Tokens : <<c, d, e>> \in Seq(Tokens)
  OBVIOUS
<1>4. << >> \in Seq(Tokens)
  OBVIOUS
<1>5. /\ "[" \in Tokens /\ "]" \in Tokens /\ ":" \in Tokens /\ "%" \in Tokens
      /\ "v4" \in Tokens /\ "num" \in Tokens /\ "eth" \in Tokens
  BY DEF Tokens
<1>6. \A h \in V6Texts : h \in Seq(Tokens)
  BY <1>2, <1>3, <1>5 DEF V6Texts
<1> QED BY <1>1, <1>2, <1>4, <1>5, <1>6

(* No text is the value that stands for an address left zero or a variable *)
(* that is not set.                                                        *)
LEMMA NotUnset == <<"unset">> \notin Seq(Tokens)
<1> SUFFICES ASSUME <<"unset">> \in Seq(Tokens) PROVE FALSE OBVIOUS
<1>1. Len(<<"unset">>) = 1 OBVIOUS
<1>2. <<"unset">>[1] \in Tokens BY <1>1, ElementOfSeq
<1> QED BY <1>2 DEF Tokens

(* The two parts of a text that is cut at a place.                         *)
LEMMA SplitText ==
  ASSUME NEW s \in Seq(Tokens), NEW k \in 1..Len(s)
  PROVE  /\ Before(s, k) \in Seq(Tokens) /\ After(s, k) \in Seq(Tokens)
         /\ Len(Before(s, k)) = k - 1 /\ Len(After(s, k)) = Len(s) - k
         /\ \A i \in 1 .. k - 1 : Before(s, k)[i] = s[i]
         /\ \A i \in 1 .. Len(s) - k : After(s, k)[i] = s[k + i]
<1>0. Len(s) \in Nat /\ k \in Nat /\ \A i \in 1..Len(s) : s[i] \in Tokens
  OBVIOUS
<1>1. /\ Before(s, k) \in Seq(Tokens) /\ Len(Before(s, k)) = k - 1
      /\ \A i \in 1 .. k - 1 : Before(s, k)[i] = s[i]
  <2>1. 1 \in Int /\ k - 1 \in Int /\ \A i \in 1 .. k - 1 : s[i] \in Tokens
    BY <1>0
  <2>2. /\ SubSeq(s, 1, k - 1) \in Seq(Tokens)
        /\ Len(SubSeq(s, 1, k - 1)) = IF 1 <= k - 1 THEN (k - 1) - 1 + 1 ELSE 0
        /\ \A i \in 1 .. (k - 1) - 1 + 1 : SubSeq(s, 1, k - 1)[i] = s[1 + i - 1]
    BY <2>1, SubSeqProperties
  <2> QED BY <1>0, <2>2 DEF Before
<1>2. /\ After(s, k) \in Seq(Tokens) /\ Len(After(s, k)) = Len(s) - k
      /\ \A i \in 1 .. Len(s) - k : After(s, k)[i] = s[k + i]
  <2>1. k + 1 \in Int /\ Len(s) \in Int /\ \A i \in k + 1 .. Len(s) : s[i] \in Tokens
    BY <1>0
  <2>2. /\ SubSeq(s, k + 1, Len(s)) \in Seq(Tokens)
        /\ Len(SubSeq(s, k + 1, Len(s))) = IF k + 1 <= Len(s) THEN Len(s) - (k + 1) + 1 ELSE 0
        /\ \A i \in 1 .. Len(s) - (k + 1) + 1 : SubSeq(s, k + 1, Len(s))[i] = s[k + 1 + i - 1]
    BY <2>1, SubSeqProperties
  <2> QED BY <1>0, <2>2 DEF After
<1> QED BY <1>1, <1>2

(* A text that c separates, and a text without c.                          *)
Joined(b, c, a) == (b \o <<c>>) \o a
Lacks(s, c)     == \A i \in 1..Len(s) : s[i] # c

(* A text is its two parts around the place where it is cut.               *)
LEMMA JoinText ==
  ASSUME NEW s \in Seq(Tokens), NEW k \in 1..Len(s)
  PROVE  s = Joined(Before(s, k), s[k], After(s, k))
<1> DEFINE b == Before(s, k)
           a == After(s, k)
<1>0. s[k] \in Tokens /\ <<s[k]>> \in Seq(Tokens) OBVIOUS
<1>1. /\ b \in Seq(Tokens) /\ a \in Seq(Tokens)
      /\ Len(b) = k - 1 /\ Len(a) = Len(s) - k
      /\ \A i \in 1 .. k - 1 : b[i] = s[i]
      /\ \A i \in 1 .. Len(s) - k : a[i] = s[k + i]
  BY SplitText
<1> HIDE DEF a, b
<1> DEFINE m == b \o <<s[k]>>
<1>2. /\ m \in Seq(Tokens) /\ Len(m) = k
      /\ \A i \in 1..k : m[i] = IF i <= k - 1 THEN b[i] ELSE <<s[k]>>[i - (k - 1)]
  <2>1. Len(<<s[k]>>) = 1 OBVIOUS
  <2> QED BY <1>0, <1>1, <2>1, ConcatProperties
<1>3. \A i \in 1..k : m[i] = s[i]
  BY <1>1, <1>2
<1> HIDE DEF m
<1>4. /\ m \o a \in Seq(Tokens) /\ Len(m \o a) = Len(s)
      /\ \A i \in 1 .. Len(s) : (m \o a)[i] = IF i <= k THEN m[i] ELSE a[i - k]
  <2>1. /\ m \o a \in Seq(Tokens) /\ Len(m \o a) = Len(m) + Len(a)
        /\ \A i \in 1 .. Len(m) + Len(a) :
             (m \o a)[i] = IF i <= Len(m) THEN m[i] ELSE a[i - Len(m)]
    <3>1. m \in Seq(Tokens) /\ a \in Seq(Tokens) BY <1>1, <1>2
    <3> QED BY <3>1, ConcatProperties
  <2>2. Len(m) = k /\ Len(m) + Len(a) = Len(s)
    BY <1>1, <1>2
  <2> QED BY <2>1, <2>2
<1>5. \A i \in 1 .. Len(s) : (m \o a)[i] = s[i]
  BY <1>1, <1>3, <1>4
<1>6. s = m \o a
  <2> DEFINE j == m \o a
  <2> HIDE DEF j
  <2>1. j \in Seq(Tokens) /\ Len(s) = Len(j) /\ \A i \in 1 .. Len(s) : s[i] = j[i]
    BY <1>4, <1>5 DEF j
  <2>2. s = j BY <2>1, SeqEqual
  <2> QED BY <2>2 DEF j
<1> QED BY <1>6 DEF m, a, b, Joined

(* Two characters, one after the other.                                    *)
LEMMA Pair ==
  ASSUME NEW c \in Tokens, NEW d \in Tokens
  PROVE  <<c>> \o <<d>> = <<c, d>>
<1> DEFINE j == <<c>> \o <<d>>
           p == <<c, d>>
<1>1. /\ p \in Seq(Tokens) /\ Len(p) = 2 /\ p[1] = c /\ p[2] = d
  OBVIOUS
<1>2. <<c>> \in Seq(Tokens) /\ <<d>> \in Seq(Tokens) /\ Len(<<c>>) = 1 /\ Len(<<d>>) = 1
  OBVIOUS
<1>3. /\ j \in Seq(Tokens) /\ Len(j) = 2 
      /\ \A i \in 1..2 : j[i] = IF i <= 1 THEN <<c>>[i] ELSE <<d>>[i - 1]
  BY <1>2, ConcatProperties
<1>4. j[1] = c /\ j[2] = d
  BY <1>3
<1> HIDE DEF j, p
<1>5. \A i \in 1..Len(j) : j[i] = p[i]
  BY <1>1, <1>3, <1>4
<1>6. j = p
  BY <1>1, <1>3, <1>5, SeqEqual
<1> QED BY <1>6 DEF j, p

(* A text that starts with a bracket.                                      *)
Bracketed(s) == s # << >> /\ s[1] = "["

(* A bracketed text is the bracket, what is inside, the last closing       *)
(* bracket and the rest.                                                   *)
LEMMA BracketText ==
  ASSUME NEW s \in Seq(Tokens), Bracketed(s),
         NEW c, c = strrchr(s, "]"), c # 0
  PROVE  /\ c \in 2..Len(s)
         /\ SubSeq(s, 2, c - 1) \in Seq(Tokens) /\ After(s, c) \in Seq(Tokens)
         /\ s = Joined(<<"[">> \o SubSeq(s, 2, c - 1), "]", After(s, c))
<1>1. c \in 1..Len(s) /\ s[c] = "]"
  BY PlaceOf
<1>2. c # 1
  BY <1>1 DEF Bracketed
<1>3. Len(s) \in Nat /\ c \in 2..Len(s) /\ 1 \in 1..Len(s) /\ c - 1 \in 1..Len(s)
  BY <1>1, <1>2
<1>4. Before(s, c) = <<"[">> \o SubSeq(s, 2, c - 1)
  <2>1. SubSeq(s, 1, c - 1) = <<s[1]>> \o SubSeq(s, 1 + 1, c - 1)
    BY <1>3, SubSeqRecursiveFirst
  <2>2. <<s[1]>> = <<"[">> /\ 1 + 1 = 2 BY DEF Bracketed
  <2>3. SubSeq(s, 1, c - 1) = <<"[">> \o SubSeq(s, 2, c - 1)
    BY <2>1, <2>2, Zenon
  <2> QED BY <2>3, Zenon DEF Before
<1>5. s = Joined(Before(s, c), "]", After(s, c))
  BY <1>1, JoinText
<1>6. SubSeq(s, 2, c - 1) \in Seq(Tokens)
  <2>1. 2 \in Int /\ c - 1 \in Int /\ \A i \in 2 .. c - 1 : s[i] \in Tokens
    BY <1>3
  <2>2. PICK n \in Int : n = c - 1
    BY <2>1
  <2>3. SubSeq(s, 2, n) \in Seq(Tokens)
    <3>1. \A i \in 2 .. n : s[i] \in Tokens BY <2>1, <2>2
    <3> QED BY <3>1, SubSeqProperties
  <2> QED BY <2>2, <2>3
<1>7. After(s, c) \in Seq(Tokens)
  BY <1>1, SplitText
<1> QED BY <1>3, <1>4, <1>5, <1>6, <1>7

(* A joined text, character by character.                                  *)
LEMMA CutAt ==
  ASSUME NEW b \in Seq(Tokens), NEW c \in Tokens, NEW a \in Seq(Tokens)
  PROVE  /\ Joined(b, c, a) \in Seq(Tokens)
         /\ Len(Joined(b, c, a)) = Len(b) + 1 + Len(a)
         /\ \A i \in 1..Len(b) : Joined(b, c, a)[i] = b[i]
         /\ Joined(b, c, a)[Len(b) + 1] = c
         /\ \A i \in 1..Len(a) : Joined(b, c, a)[Len(b) + 1 + i] = a[i]
<1> DEFINE m == b \o <<c>>
           s == m \o a
<1>0. <<c>> \in Seq(Tokens) /\ Len(<<c>>) = 1 /\ <<c>>[1] = c /\ Len(b) \in Nat /\ Len(a) \in Nat
  OBVIOUS
<1>1. /\ m \in Seq(Tokens) /\ Len(m) = Len(b) + 1
      /\ \A i \in 1..Len(b) + 1 : m[i] = IF i <= Len(b) THEN b[i] ELSE <<c>>[i - Len(b)]
  BY <1>0, ConcatProperties
<1>2. m[Len(b) + 1] = c /\ \A i \in 1..Len(b) : m[i] = b[i]
  BY <1>0, <1>1
<1> HIDE DEF m
<1>3. /\ s \in Seq(Tokens) /\ Len(s) = Len(m) + Len(a)
      /\ \A i \in 1..Len(m) + Len(a) : s[i] = IF i <= Len(m) THEN m[i] ELSE a[i - Len(m)]
  <2>1. m \in Seq(Tokens) BY <1>1
  <2> QED BY <2>1, ConcatProperties
<1> HIDE DEF s
<1>4. /\ Len(s) = Len(b) + 1 + Len(a)
      /\ \A i \in 1..Len(b) : s[i] = b[i]
      /\ s[Len(b) + 1] = c
  BY <1>0, <1>1, <1>2, <1>3
<1>5. ASSUME NEW i \in 1..Len(a) PROVE s[Len(b) + 1 + i] = a[i]
  <2>1. Len(b) + 1 + i \in 1..Len(m) + Len(a) /\ ~(Len(b) + 1 + i <= Len(m))
        /\ (Len(b) + 1 + i) - Len(m) = i
    BY <1>0, <1>1
  <2> QED BY <1>3, <2>1
<1> QED BY <1>3, <1>4, <1>5 DEF s, m, Joined

(* A text joined at the last place of a character is cut there again. *)
LEMMA CutJoined ==
  ASSUME NEW b \in Seq(Tokens), NEW c \in Tokens, NEW a \in Seq(Tokens), Lacks(a, c)
  PROVE  /\ strrchr(Joined(b, c, a), c) = Len(b) + 1
         /\ Before(Joined(b, c, a), Len(b) + 1) = b
         /\ After(Joined(b, c, a), Len(b) + 1) = a
<1> DEFINE s == Joined(b, c, a)
<1>0. Len(b) \in Nat /\ Len(a) \in Nat
  OBVIOUS
<1>1. /\ s \in Seq(Tokens)
      /\ Len(s) = Len(b) + 1 + Len(a)
      /\ \A i \in 1..Len(b) : s[i] = b[i]
      /\ s[Len(b) + 1] = c
      /\ \A i \in 1..Len(a) : s[Len(b) + 1 + i] = a[i]
  BY CutAt, Zenon
<1> HIDE DEF s
<1>2. PICK k \in 1..Len(s) : k = Len(b) + 1
  BY <1>0, <1>1
<1>3. ASSUME NEW j \in 1..Len(s), s[j] = c PROVE j <= k
  <2>1. SUFFICES ASSUME j > k PROVE FALSE
    BY <1>2
  <2>2. j - k \in 1..Len(a) /\ j = Len(b) + 1 + (j - k)
    BY <1>0, <1>1, <1>2, <2>1
  <2>3. s[j] = a[j - k]
    BY <1>1, <2>2
  <2> QED BY <1>3, <2>2, <2>3 DEF Lacks
<1>4. strrchr(s, c) = k
  BY <1>1, <1>2, <1>3, LastPlace
<1>5. /\ Before(s, k) \in Seq(Tokens) /\ After(s, k) \in Seq(Tokens)
      /\ Len(Before(s, k)) = k - 1 /\ Len(After(s, k)) = Len(s) - k
      /\ \A i \in 1 .. k - 1 : Before(s, k)[i] = s[i]
      /\ \A i \in 1 .. Len(s) - k : After(s, k)[i] = s[k + i]
  BY <1>1, <1>2, SplitText
<1>6. Before(s, k) = b
  <2>1. k - 1 = Len(b)
    BY <1>0, <1>2
  <2>2. Len(Before(s, k)) = Len(b) /\ \A i \in 1..Len(Before(s, k)) : Before(s, k)[i] = b[i]
    BY <1>1, <1>5, <2>1
  <2> QED BY <1>5, <2>2, SeqEqual
<1>7. After(s, k) = a
  <2>1. Len(s) - k = Len(a) /\ \A i \in 1..Len(a) : k + i = Len(b) + 1 + i
    BY <1>0, <1>1, <1>2
  <2>2. Len(After(s, k)) = Len(a) /\ \A i \in 1..Len(After(s, k)) : After(s, k)[i] = a[i]
    <3>1. ASSUME NEW i \in 1..Len(a) PROVE After(s, k)[i] = a[i]
      BY <1>1, <1>5, <2>1
    <3> QED BY <1>5, <2>1, <3>1
  <2> QED BY <1>5, <2>2, SeqEqual
<1> QED BY <1>2, <1>4, <1>6, <1>7 DEF s

(* The parts of a bracketed text, as ParseBracketed takes it to pieces.    *)
Inside(s)   == SubSeq(s, 2, strrchr(s, "]") - 1)
Rest(s)     == After(s, strrchr(s, "]"))
IsV6(ip)    == \E i \in 1..Len(ip) : ip[i] = ":"
SepOf(ip)   == IF IsV6(ip) THEN strrchr(ip, "%") ELSE 0
HostOf(ip)  == IF SepOf(ip) = 0 THEN ip ELSE Before(ip, SepOf(ip))
ScopeOf(ip) == IF SepOf(ip) = 0 THEN "none" ELSE if_nametoindex(After(ip, SepOf(ip)))
FamilyOf(ip) == IF IsV6(ip) THEN "AF_INET6" ELSE "AF_INET"

-----------------------------------------------------------------------------
(* What parse_addr accepts is what the text means. *)

(* parse_addr of a bracketed text, in terms of these parts.                *)
LEMMA BracketForm ==
  ASSUME NEW s, Bracketed(s), NEW ip, ip = Inside(s)
  PROVE  parse_addr(s) =
           IF strrchr(s, "]") = 0 THEN Refuse(s, "EINVAL")
           ELSE IF SepOf(ip) # 0 /\ ScopeOf(ip) = "none"
             THEN Refuse(<<"[">> \o HostOf(ip), "EINVAL")
           ELSE IF PortAfter(Rest(s)) \in Errors
             THEN Refuse(<<"[">> \o HostOf(ip), PortAfter(Rest(s)))
           ELSE Accept(<<"[">> \o HostOf(ip), FamilyOf(ip),
                       inet_pton(FamilyOf(ip), HostOf(ip)), ScopeOf(ip), PortAfter(Rest(s)))
<1>1. parse_addr(s) = ParseBracketed(s)
  BY DEF parse_addr, Bracketed
<1> QED BY <1>1, Zenon DEF ParseBracketed, Inside, Rest, IsV6, SepOf, HostOf, ScopeOf, FamilyOf

(* The parts of a text without brackets, as ParsePlain takes it to pieces. *)
LeftOf(s) == IF strrchr(s, ":") = 0 THEN s ELSE Before(s, strrchr(s, ":"))
PortOf(s) == IF strrchr(s, ":") = 0 THEN "default"
                                    ELSE parse_port(After(s, strrchr(s, ":")))

(* parse_addr of a text without a bracket, in terms of these parts.        *)
LEMMA PlainForm ==
  ASSUME NEW s, ~Bracketed(s)
  PROVE  parse_addr(s) =
           IF PortOf(s) \in Errors THEN Refuse(LeftOf(s), PortOf(s))
           ELSE Accept(LeftOf(s), "AF_INET", inet_pton("AF_INET", LeftOf(s)), "none",
                       PortOf(s))
<1>1. parse_addr(s) = ParsePlain(s)
  BY DEF parse_addr, Bracketed
<1> QED BY <1>1, Zenon DEF ParsePlain, LeftOf, PortOf

(* parse_port accepts a number that is a port and nothing else.            *)
LEMMA ParsePort ==
  ASSUME NEW s
  PROVE  /\ parse_port(s) \notin Errors <=> s = <<"num">>
         /\ parse_port(<<"num">>) = "given"
         /\ parse_port(s) \in {"given", "EINVAL", "ERANGE"}
<1>1. <<"num">> # <<"big">> OBVIOUS
<1> QED BY <1>1 DEF parse_port, Errors

(* The port is the default one when nothing follows the bracket, and given *)
(* when a colon and a port do.                                             *)
LEMMA ParsedRest ==
  ASSUME NEW rest \in Seq(Tokens)
  PROVE  /\ PortAfter(rest) \in {"default", "zero", "given"} \cup Errors
         /\ PortAfter(rest) = "default" <=> rest = << >>
         /\ PortAfter(rest) = "given" <=> rest = <<":", "num">>
<1>1. CASE rest = << >>
  <2>1. PortAfter(rest) = "default" BY <1>1 DEF PortAfter
  <2>2. << >> # <<":", "num">> OBVIOUS
  <2> QED BY <1>1, <2>1, <2>2
<1>2. CASE rest # << >> /\ Head(rest) = ":"
  <2>1. PortAfter(rest) = parse_port(Tail(rest))
    BY <1>2 DEF PortAfter
  <2>2. Tail(rest) = <<"num">> <=> rest = <<":", "num">>
    <3>1. ASSUME Tail(rest) = <<"num">> PROVE rest = <<":", "num">>
      <4>1. /\ Len(Tail(rest)) = Len(rest) - 1
            /\ \A i \in 1..Len(Tail(rest)) : Tail(rest)[i] = rest[i + 1]
        BY <1>2, HeadTailProperties
      <4>2. Len(<<"num">>) = 1 /\ <<"num">>[1] = "num" OBVIOUS
      <4>3. Len(rest) \in Nat OBVIOUS
      <4>4. Len(rest) = 2 /\ rest[2] = "num"
        <5>1. Len(Tail(rest)) = 1 /\ Tail(rest)[1] = "num"
          BY <3>1, <4>2
        <5>2. Tail(rest)[1] = rest[1 + 1]
          BY <4>1, <5>1
        <5> QED BY <4>1, <4>3, <5>1, <5>2
      <4>5. rest[1] = ":" BY <1>2
      <4> DEFINE p == <<":", "num">>
      <4>6. Len(p) = 2 /\ p[1] = ":" /\ p[2] = "num" OBVIOUS
      <4>7. p \in Seq(Tokens) BY Literals
      <4> HIDE DEF p
      <4>8. \A i \in 1..Len(rest) : rest[i] = p[i]
        BY <4>4, <4>5, <4>6
      <4>9. rest = p
        BY <4>4, <4>6, <4>7, <4>8, SeqEqual
      <4> QED BY <4>9 DEF p
    <3>2. ASSUME rest = <<":", "num">> PROVE Tail(rest) = <<"num">>
      BY <3>2
    <3> QED BY <3>1, <3>2
  <2> HIDE DEF PortAfter
  <2> QED BY <1>2, <2>1, <2>2, ParsePort DEF Errors
<1>3. CASE rest # << >> /\ Head(rest) # ":"
  <2>1. PortAfter(rest) = "zero" BY <1>3 DEF PortAfter
  <2>2. Head(<<":", "num">>) = ":" OBVIOUS
  <2> QED BY <1>3, <2>1, <2>2
<1> QED BY <1>1, <1>2, <1>3

(* The fields of the result when the text is accepted ...                  *)
LEMMA AcceptedFields ==
  ASSUME NEW l, NEW f, NEW h, NEW sc, NEW p
  PROVE  /\ Accept(l, f, h, sc, p).ret = "ok" /\ Accept(l, f, h, sc, p).left = l
         /\ Accept(l, f, h, sc, p).addr = [family |-> f, host |-> h, scope |-> sc, port |-> p]
BY DEF Accept

(* ... and when it is refused.                                             *)
LEMMA RefusedFields ==
  ASSUME NEW l, NEW e
  PROVE  Refuse(l, e).ret = e /\ Refuse(l, e).left = l
BY DEF Refuse

(* inet_pton returns an address only for a host of the grammar.            *)
LEMMA InetPton ==
  ASSUME NEW f, NEW h, inet_pton(f, h) # <<"unset">>
  PROVE  /\ inet_pton(f, h) = h
         /\ \/ f = "AF_INET" /\ h = <<"v4">>
            \/ f = "AF_INET6" /\ h \in V6Texts
BY Zenon DEF inet_pton

(* An address in brackets and what follows it.                             *)
InBrackets(ip, t) == Joined(<<"[">> \o ip, "]", t)

(* A host in brackets with its scope and what follows, as the grammar has  *)
(* it.                                                                     *)
Written(h, z, t) == (((<<"[">> \o h) \o z) \o <<"]">>) \o t

(* The grammar puts the host and the scope inside the brackets.            *)
LEMMA JoinZone ==
  ASSUME NEW h \in Seq(Tokens), NEW z \in Seq(Tokens), NEW t \in Seq(Tokens)
  PROVE  h \o z \in Seq(Tokens) /\ InBrackets(h \o z, t) = Written(h, z, t)
<1>1. <<"[">> \in Seq(Tokens) BY Literals
<1>2. h \o z \in Seq(Tokens) BY ConcatProperties
<1>3. <<"[">> \o (h \o z) = (<<"[">> \o h) \o z
  BY <1>1, ConcatAssociative
<1> QED BY <1>2, <1>3, Zenon DEF Joined, InBrackets, Written

(* A text put together by the grammar has the meaning it was made from.    *)
LEMMA InTexts ==
  ASSUME NEW h, NEW sc \in {"none", "eth"}, NEW p \in {"default", "given"},
         NEW f, \/ f = "AF_INET" /\ h = <<"v4">> /\ sc = "none"
                \/ f = "AF_INET6" /\ h \in V6Texts,
         NEW z, z = IF sc = "eth" THEN <<"%", "eth">> ELSE << >>,
         NEW t, t = IF p = "given" THEN <<":", "num">> ELSE << >>,
         NEW s, \/ s = Written(h, z, t)
                \/ f = "AF_INET" /\ s = h \o t
  PROVE  [family |-> f, host |-> h, scope |-> sc, port |-> p] \in Meaning(s)
<1> DEFINE a == [family |-> f, host |-> h, scope |-> sc, port |-> p]
<1>1. a \in Addrs
  BY DEF Addrs
<1>2. a.family = f /\ a.host = h /\ a.scope = sc /\ a.port = p
  OBVIOUS
<1>3. s \in TextsOf(a)
  <2> HIDE DEF a
  <2>1. TextsOf(a) = {Written(h, z, t)}
                        \cup (IF f = "AF_INET" THEN {h \o t} ELSE {})
    BY <1>2, Zenon DEF TextsOf, Written
  <2> QED BY <2>1, Zenon
<1> QED BY <1>1, <1>3 DEF Meaning

(* A bracketed text that is accepted with a host and a port stands for     *)
(* that address; what is left of it is a text.                             *)
LEMMA BracketSound ==
  ASSUME NEW s \in Seq(Tokens), Bracketed(s)
  PROVE  /\ parse_addr(s).left \in Seq(Tokens)
         /\ (/\ parse_addr(s).ret = "ok"
             /\ parse_addr(s).addr.host # <<"unset">>
             /\ parse_addr(s).addr.port # "zero") => parse_addr(s).addr \in Meaning(s)
<1>1. PICK close : close = strrchr(s, "]") OBVIOUS
<1>2. PICK ip : ip = Inside(s) OBVIOUS
<1>3. PICK sep : sep = SepOf(ip) OBVIOUS
<1>4. PICK host : host = HostOf(ip) OBVIOUS
<1>5. PICK scope : scope = ScopeOf(ip) OBVIOUS
<1>6. PICK rest : rest = Rest(s) OBVIOUS
<1>7. PICK port : port = PortAfter(rest) OBVIOUS
<1>8. PICK fam : fam = FamilyOf(ip) OBVIOUS
<1>9. parse_addr(s) =
        IF close = 0 THEN Refuse(s, "EINVAL")
        ELSE IF sep # 0 /\ scope = "none" THEN Refuse(<<"[">> \o host, "EINVAL")
        ELSE IF port \in Errors THEN Refuse(<<"[">> \o host, port)
        ELSE Accept(<<"[">> \o host, fam, inet_pton(fam, host), scope, port)
  BY <1>1, <1>2, <1>3, <1>4, <1>5, <1>6, <1>7, <1>8, BracketForm
<1>10. CASE close = 0
  <2>1. parse_addr(s) = Refuse(s, "EINVAL") BY <1>9, <1>10
  <2>2. parse_addr(s).left = s /\ parse_addr(s).ret = "EINVAL"
    BY <2>1, RefusedFields
  <2> QED BY <2>2
<1>11. CASE close # 0
  <2>1. /\ ip \in Seq(Tokens) /\ rest \in Seq(Tokens)
        /\ s = Joined(<<"[">> \o ip, "]", rest)
    BY <1>1, <1>2, <1>6, <1>11, BracketText DEF Inside, Rest
  <2>2. sep = 0 \/ (sep \in 1..Len(ip) /\ ip[sep] = "%")
    BY <1>3, <2>1, PlaceOf DEF SepOf
  <2>3. host \in Seq(Tokens)
    BY <1>3, <1>4, <2>1, <2>2, SplitText DEF HostOf
  <2>4. <<"[">> \o host \in Seq(Tokens)
    BY <2>3, Literals, ConcatProperties
  <2>5. parse_addr(s).left = <<"[">> \o host
    <3>1. \/ parse_addr(s) = Refuse(<<"[">> \o host, "EINVAL")
          \/ parse_addr(s) = Refuse(<<"[">> \o host, port)
          \/ parse_addr(s) = Accept(<<"[">> \o host, fam, inet_pton(fam, host), scope, port)
      BY <1>9, <1>11, Zenon
    <3>2. CASE parse_addr(s) = Refuse(<<"[">> \o host, "EINVAL")
      BY <3>2, RefusedFields
    <3>3. CASE parse_addr(s) = Refuse(<<"[">> \o host, port)
      BY <3>3, RefusedFields
    <3>4. CASE parse_addr(s) = Accept(<<"[">> \o host, fam, inet_pton(fam, host), scope, port)
      BY <3>4 DEF Accept
    <3> QED BY <3>1, <3>2, <3>3, <3>4
  <2>6. ASSUME parse_addr(s).ret = "ok", parse_addr(s).addr.host # <<"unset">>,
               parse_addr(s).addr.port # "zero"
        PROVE  parse_addr(s).addr \in Meaning(s)
    <3>1. port \notin Errors /\ ~(sep # 0 /\ scope = "none")
      <4>1. CASE sep # 0 /\ scope = "none"
        <5>1. parse_addr(s).ret = "EINVAL" BY <1>9, <1>11, <4>1, RefusedFields
        <5> QED BY <2>6, <5>1
      <4>2. CASE ~(sep # 0 /\ scope = "none") /\ port \in Errors
        <5>1. parse_addr(s).ret = port BY <1>9, <1>11, <4>2, RefusedFields
        <5> QED BY <2>6, <4>2, <5>1 DEF Errors
      <4> QED BY <4>1, <4>2
    <3>2. parse_addr(s) = Accept(<<"[">> \o host, fam, inet_pton(fam, host), scope, port)
      BY <1>9, <1>11, <3>1, Zenon
    <3>3. parse_addr(s).addr =
            [family |-> fam, host |-> inet_pton(fam, host), scope |-> scope, port |-> port]
      BY <3>2, AcceptedFields
    <3>4. inet_pton(fam, host) # <<"unset">> /\ port # "zero"
      BY <2>6, <3>3
    <3>5. /\ inet_pton(fam, host) = host
          /\ \/ fam = "AF_INET" /\ host = <<"v4">>
             \/ fam = "AF_INET6" /\ host \in V6Texts
      BY <3>4, InetPton, Zenon
    <3>6. port \in {"default", "given"}
          /\ rest = IF port = "given" THEN <<":", "num">> ELSE << >>
      BY <1>7, <2>1, <3>1, <3>4, ParsedRest
    <3>7. PICK z : z = IF scope = "eth" THEN <<"%", "eth">> ELSE << >> OBVIOUS
    <3>8. scope \in {"none", "eth"} /\ (fam = "AF_INET" => scope = "none")
      BY <1>3, <1>5, <1>8, <3>1 DEF if_nametoindex, SepOf, ScopeOf, FamilyOf
    <3>9. ip = host \o z /\ z \in Seq(Tokens)
      <4>1. CASE sep = 0
        <5>1. scope = "none" /\ host = ip /\ z = << >>
          BY <1>3, <1>4, <1>5, <3>7, <4>1 DEF HostOf, ScopeOf
        <5> QED BY <2>1, <5>1, Literals, ConcatEmptySeq
      <4>2. CASE sep # 0
        <5>1. scope = "eth" /\ z = <<"%", "eth">> /\ After(ip, sep) = <<"eth">>
          BY <1>3, <1>5, <3>1, <3>7, <3>8, <4>2 DEF if_nametoindex, ScopeOf
        <5>2. host = Before(ip, sep) /\ sep \in 1..Len(ip) /\ ip[sep] = "%"
          BY <1>3, <1>4, <2>2, <4>2 DEF HostOf
        <5>3. ip = (host \o <<"%">>) \o <<"eth">>
          BY <2>1, <5>1, <5>2, JoinText DEF Joined
        <5>4. (host \o <<"%">>) \o <<"eth">> = host \o (<<"%">> \o <<"eth">>)
          BY <2>3, Literals, ConcatAssociative
        <5>5. <<"%">> \o <<"eth">> = <<"%", "eth">>
          BY Pair DEF Tokens
        <5> QED BY <5>1, <5>3, <5>4, <5>5, Literals
      <4> QED BY <4>1, <4>2
    <3>10. s = Written(host, z, rest)
      <4>1. host \in Seq(Tokens) /\ z \in Seq(Tokens) /\ rest \in Seq(Tokens)
        BY <2>1, <2>3, <3>9
      <4>2. InBrackets(host \o z, rest) = Written(host, z, rest)
        BY <4>1, JoinZone
      <4>3. s = InBrackets(ip, rest)
        BY <2>1 DEF InBrackets
      <4> QED BY <3>9, <4>2, <4>3
    <3>11. [family |-> fam, host |-> host, scope |-> scope, port |-> port] \in Meaning(s)
      BY <3>5, <3>6, <3>7, <3>8, <3>10, InTexts
    <3> QED BY <3>3, <3>5, <3>11
  <2> QED BY <2>4, <2>5, <2>6
<1> QED BY <1>10, <1>11

(* The same of a text without a bracket.                                   *)
LEMMA PlainSound ==
  ASSUME NEW s \in Seq(Tokens), ~Bracketed(s)
  PROVE  /\ parse_addr(s).left \in Seq(Tokens)
         /\ (/\ parse_addr(s).ret = "ok"
             /\ parse_addr(s).addr.host # <<"unset">>
             /\ parse_addr(s).addr.port # "zero") => parse_addr(s).addr \in Meaning(s)
<1>1. PICK sep : sep = strrchr(s, ":") OBVIOUS
<1>a. PICK left : left = LeftOf(s) OBVIOUS
<1>b. PICK port : port = PortOf(s) OBVIOUS
<1>2. left = IF sep = 0 THEN s ELSE Before(s, sep)
  BY <1>1, <1>a DEF LeftOf
<1>3. port = IF sep = 0 THEN "default" ELSE parse_port(After(s, sep))
  BY <1>1, <1>b DEF PortOf
<1>4. parse_addr(s) =
        IF port \in Errors THEN Refuse(left, port)
        ELSE Accept(left, "AF_INET", inet_pton("AF_INET", left), "none", port)
  BY <1>a, <1>b, PlainForm
<1>5. sep = 0 \/ (sep \in 1..Len(s) /\ s[sep] = ":")
  BY <1>1, PlaceOf
<1>6. left \in Seq(Tokens)
  BY <1>2, <1>5, SplitText
<1>7. parse_addr(s).left = left
  BY <1>4 DEF Accept, Refuse
<1>8. ASSUME parse_addr(s).ret = "ok", parse_addr(s).addr.host # <<"unset">>,
             parse_addr(s).addr.port # "zero"
      PROVE  parse_addr(s).addr \in Meaning(s)
  <2>1. port \notin Errors
    <3>1. SUFFICES ASSUME port \in Errors PROVE FALSE OBVIOUS
    <3>2. parse_addr(s).ret = port BY <1>4, <3>1, RefusedFields
    <3> QED BY <1>8, <3>1, <3>2 DEF Errors
  <2>2. parse_addr(s) = Accept(left, "AF_INET", inet_pton("AF_INET", left), "none", port)
    BY <1>4, <2>1
  <2>3. parse_addr(s).addr = [family |-> "AF_INET", host |-> inet_pton("AF_INET", left),
                              scope |-> "none", port |-> port]
    BY <2>2 DEF Accept
  <2>4. inet_pton("AF_INET", left) # <<"unset">>
    BY <1>8, <2>3
  <2>5. inet_pton("AF_INET", left) = left /\ left = <<"v4">>
    BY <2>4, InetPton
  <2>6. PICK t : t = IF port = "given" THEN <<":", "num">> ELSE << >> OBVIOUS
  <2>7. port \in {"default", "given"} /\ s = left \o t
    <3>1. CASE sep = 0
      <4>1. port = "default" /\ left = s /\ t = << >>
        BY <1>2, <1>3, <2>6, <3>1
      <4> QED BY <4>1, ConcatEmptySeq
    <3>2. CASE sep # 0
      <4>1. After(s, sep) = <<"num">> /\ port = "given" /\ t = <<":", "num">>
        BY <1>3, <2>1, <2>6, <3>2, ParsePort
      <4>2. s = (left \o <<":">>) \o <<"num">>
        BY <1>2, <1>5, <3>2, <4>1, JoinText DEF Joined
      <4>3. (left \o <<":">>) \o <<"num">> = left \o (<<":">> \o <<"num">>)
        BY <1>6, Literals, ConcatAssociative
      <4>4. <<":">> \o <<"num">> = <<":", "num">>
        BY Pair DEF Tokens
      <4> QED BY <4>1, <4>2, <4>3, <4>4
    <3> QED BY <3>1, <3>2
  <2>8. [family |-> "AF_INET", host |-> left, scope |-> "none", port |-> port] \in Meaning(s)
    <3>1. PICK z : z = IF "none" = "eth" THEN <<"%", "eth">> ELSE << >> OBVIOUS
    <3> QED BY <2>5, <2>6, <2>7, <3>1, InTexts
  <2> QED BY <2>3, <2>5, <2>8
<1> QED BY <1>6, <1>7, <1>8

(* parse_addr on every text: what it leaves is a text, and what it accepts *)
(* with an address and a port is what the text means.                      *)
THEOREM ParseSound ==
  ASSUME NEW s \in Seq(Tokens)
  PROVE  /\ parse_addr(s).left \in Seq(Tokens)
         /\ (/\ parse_addr(s).ret = "ok"
             /\ parse_addr(s).addr.host # <<"unset">>
             /\ parse_addr(s).addr.port # "zero") => parse_addr(s).addr \in Meaning(s)
<1>1. CASE Bracketed(s) BY <1>1, BracketSound
<1>2. CASE ~Bracketed(s) BY <1>2, PlainSound
<1> QED BY <1>1, <1>2

(* The words of the grammar, character by character.                       *)
LEMMA Words ==
  /\ Len(<<"[">>) = 1 /\ <<"[">>[1] = "["
  /\ Len(<<"v4">>) = 1 /\ <<"v4">>[1] = "v4"
  /\ Len(<<"eth">>) = 1 /\ <<"eth">>[1] = "eth"
  /\ Len(<<"num">>) = 1 /\ <<"num">>[1] = "num"
  /\ Len(<<":", "num">>) = 2 /\ <<":", "num">>[1] = ":" /\ <<":", "num">>[2] = "num"
  /\ Len(<<"%", "eth">>) = 2 /\ <<"%", "eth">>[1] = "%" /\ <<"%", "eth">>[2] = "eth"
  /\ \A h \in V6Texts : /\ Len(h) \in 2..3 /\ h[1] = ":" /\ h[2] = ":"
                        /\ Len(h) = 3 => h[3] = "num"
<1>1. \A h \in V6Texts : /\ Len(h) \in 2..3 /\ h[1] = ":" /\ h[2] = ":"
                         /\ Len(h) = 3 => h[3] = "num"
  BY DEF V6Texts
<1> QED BY <1>1

(* What is between two given ends is determined by the whole.              *)
LEMMA JoinInjective ==
  ASSUME NEW q \in Seq(Tokens), NEW r \in Seq(Tokens), NEW t \in Seq(Tokens),
         Joined(<<"[">> \o q, "]", t) = Joined(<<"[">> \o r, "]", t)
  PROVE  q = r
<1>1. /\ \A u, v, w \in Seq(Tokens) : u \o v = u \o w => v = w
      /\ \A u, v, w \in Seq(Tokens) : u \o w = v \o w => u = v
  BY ConcatSimplifications
<1>2. <<"[">> \in Seq(Tokens) /\ <<"]">> \in Seq(Tokens)
  BY Literals
<1>3. /\ <<"[">> \o q \in Seq(Tokens) /\ <<"[">> \o r \in Seq(Tokens)
  BY <1>2, ConcatProperties
<1>4. /\ (<<"[">> \o q) \o <<"]">> \in Seq(Tokens)
      /\ (<<"[">> \o r) \o <<"]">> \in Seq(Tokens)
  BY <1>2, <1>3, ConcatProperties
<1>5. (<<"[">> \o q) \o <<"]">> = (<<"[">> \o r) \o <<"]">>
  BY <1>1, <1>4, Zenon DEF Joined
<1>6. <<"[">> \o q = <<"[">> \o r
  BY <1>1, <1>2, <1>3, <1>5, Zenon
<1> QED BY <1>1, <1>2, <1>6, Zenon

-----------------------------------------------------------------------------
(* What a text means is what parse_addr makes of it. *)

(* A text put together from what is inside the brackets and what follows   *)
(* is taken to pieces in the same way.                                     *)
LEMMA BracketParts ==
  ASSUME NEW ip \in Seq(Tokens), NEW t \in Seq(Tokens),
         Lacks(t, "]"), NEW s, s = InBrackets(ip, t)
  PROVE  /\ s \in Seq(Tokens) /\ Bracketed(s)
         /\ strrchr(s, "]") # 0 /\ Inside(s) = ip /\ Rest(s) = t
<1>0. /\ Len(ip) \in Nat /\ Len(t) \in Nat
      /\ <<"[">> \in Seq(Tokens) /\ "]" \in Tokens /\ Len(<<"[">>) = 1
  BY Literals, Words DEF Tokens
<1>1. PICK b : b = <<"[">> \o ip OBVIOUS
<1>2. /\ b \in Seq(Tokens) /\ Len(b) = 1 + Len(ip)
      /\ \A i \in 1 .. 1 + Len(ip) : b[i] = IF i <= 1 THEN <<"[">>[i] ELSE ip[i - 1]
  BY <1>0, <1>1, ConcatProperties
<1>3. s = Joined(b, "]", t) BY <1>1 DEF InBrackets
<1>4. /\ s \in Seq(Tokens) /\ Len(s) = Len(b) + 1 + Len(t)
      /\ \A i \in 1..Len(b) : s[i] = b[i]
  <2>1. /\ Joined(b, "]", t) \in Seq(Tokens)
        /\ Len(Joined(b, "]", t)) = Len(b) + 1 + Len(t)
        /\ \A i \in 1..Len(b) : Joined(b, "]", t)[i] = b[i]
    <3>1. b \in Seq(Tokens) /\ "]" \in Tokens BY <1>0, <1>2
    <3> QED BY <3>1, CutAt
  <2> QED BY <1>3, <2>1, Zenon
<1>5. /\ strrchr(s, "]") = Len(b) + 1
      /\ Before(s, Len(b) + 1) = b
      /\ After(s, Len(b) + 1) = t
  <2>1. /\ strrchr(Joined(b, "]", t), "]") = Len(b) + 1
        /\ Before(Joined(b, "]", t), Len(b) + 1) = b
        /\ After(Joined(b, "]", t), Len(b) + 1) = t
    BY <1>0, <1>2, CutJoined, Zenon
  <2> QED BY <1>3, <2>1, Zenon
<1>6. Bracketed(s)
  <2>1. s[1] = b[1] /\ b[1] = <<"[">>[1] BY <1>0, <1>2, <1>4
  <2>2. Len(s) # 0 BY <1>0, <1>2, <1>4
  <2> QED BY <2>1, <2>2, Words DEF Bracketed
<1>7. Rest(s) = t
  BY <1>5 DEF Rest
<1>8. PICK c : c = strrchr(s, "]") OBVIOUS
<1>9. c # 0 /\ After(s, c) = t
  BY <1>0, <1>2, <1>5, <1>8
<1>10. PICK q : q = SubSeq(s, 2, c - 1) OBVIOUS
<1>11. q \in Seq(Tokens) /\ s = Joined(<<"[">> \o q, "]", t)
  <2>1. /\ SubSeq(s, 2, c - 1) \in Seq(Tokens)
        /\ s = Joined(<<"[">> \o SubSeq(s, 2, c - 1), "]", After(s, c))
    BY <1>4, <1>6, <1>8, <1>9, BracketText
  <2> QED BY <1>9, <1>10, <2>1, Zenon
<1>12. q = ip
  BY <1>11, JoinInjective DEF InBrackets
<1>13. Inside(s) = ip
  BY <1>8, <1>10, <1>12 DEF Inside
<1> QED BY <1>4, <1>6, <1>7, <1>8, <1>9, <1>13

(* What is inside the brackets, without and with a scope.                  *)
LEMMA InsideV4 ==
  SepOf(<<"v4">>) = 0 /\ HostOf(<<"v4">>) = <<"v4">> /\ FamilyOf(<<"v4">>) = "AF_INET"
<1>1. ~IsV6(<<"v4">>) BY Words DEF IsV6
<1> QED BY <1>1 DEF SepOf, HostOf, FamilyOf

(* An IPv6 address alone ...                                               *)
LEMMA InsideV6 ==
  ASSUME NEW h \in V6Texts
  PROVE  SepOf(h) = 0 /\ HostOf(h) = h /\ FamilyOf(h) = "AF_INET6"
<1>1. /\ Len(h) \in 2..3 /\ h[1] = ":" /\ h[2] = ":" /\ h \in Seq(Tokens)
      /\ Len(h) = 3 => h[3] = "num"
  BY Words, Literals
<1>2. IsV6(h) BY <1>1 DEF IsV6
<1>3. \A j \in 1..Len(h) : h[j] # "%" BY <1>1
<1>4. strrchr(h, "%") = 0
  BY <1>1, <1>3, NoPlace
<1> QED BY <1>2, <1>4 DEF SepOf, HostOf, FamilyOf

(* ... and with a scope.                                                   *)
LEMMA InsideScope ==
  ASSUME NEW h \in V6Texts, NEW ip, ip = h \o <<"%", "eth">>
  PROVE  /\ SepOf(ip) # 0 /\ HostOf(ip) = h /\ ScopeOf(ip) = "eth"
         /\ FamilyOf(ip) = "AF_INET6"
<1>1. Len(h) \in 2..3 /\ h[1] = ":" /\ h \in Seq(Tokens)
  BY Words, Literals
<1>2. <<"eth">> \in Seq(Tokens) /\ <<"%">> \in Seq(Tokens) /\ "%" \in Tokens
  BY Literals DEF Tokens
<1>3. ip = (h \o <<"%">>) \o <<"eth">>
  <2>1. <<"%">> \o <<"eth">> = <<"%", "eth">>
    BY Pair DEF Tokens
  <2>2. (h \o <<"%">>) \o <<"eth">> = h \o (<<"%">> \o <<"eth">>)
    BY <1>1, <1>2, ConcatAssociative
  <2> QED BY <2>1, <2>2, Zenon
<1>4. PICK e \in Seq(Tokens) : e = <<"eth">> BY <1>2
<1>b. ip = Joined(h, "%", e) BY <1>3, <1>4 DEF Joined
<1>5. Lacks(e, "%") BY <1>4, Words DEF Lacks
<1>6. /\ strrchr(ip, "%") = Len(h) + 1
      /\ Before(ip, Len(h) + 1) = h
      /\ After(ip, Len(h) + 1) = e
  <2>1. /\ strrchr(Joined(h, "%", e), "%") = Len(h) + 1
        /\ Before(Joined(h, "%", e), Len(h) + 1) = h
        /\ After(Joined(h, "%", e), Len(h) + 1) = e
    BY <1>1, <1>2, <1>4, <1>5, CutJoined, Zenon
  <2> QED BY <1>b, <2>1, Zenon
<1>7. IsV6(ip)
  <2>1. /\ Len(ip) = Len(h) + 1 + Len(e)
        /\ \A i \in 1..Len(h) : ip[i] = h[i]
    BY <1>1, <1>2, <1>4, <1>b, CutAt
  <2>2. 1 \in 1..Len(h) /\ 1 \in 1..Len(ip)
    <3>1. Len(e) = 1 BY <1>4, Words
    <3> QED BY <1>1, <2>1, <3>1
  <2>3. ip[1] = ":" BY <1>1, <2>1, <2>2
  <2> QED BY <2>2, <2>3 DEF IsV6
<1>8. SepOf(ip) = Len(h) + 1 /\ SepOf(ip) # 0
  BY <1>1, <1>6, <1>7 DEF SepOf
<1>9. HostOf(ip) = h BY <1>6, <1>8 DEF HostOf
<1>10. ScopeOf(ip) = "eth" BY <1>4, <1>6, <1>8 DEF ScopeOf, if_nametoindex
<1> QED BY <1>7, <1>8, <1>9, <1>10 DEF FamilyOf

(* The part of a text that tells the port.                                 *)
TailOf(p) == IF p = "given" THEN <<":", "num">> ELSE << >>
(* The part that tells the scope.                                          *)
ZoneOf(sc) == IF sc = "eth" THEN <<"%", "eth">> ELSE << >>

(* They are texts, and the port ends where it should.                      *)
LEMMA TailText ==
  ASSUME NEW p \in {"default", "given"}
  PROVE  /\ TailOf(p) \in Seq(Tokens) /\ PortAfter(TailOf(p)) = p
         /\ Lacks(TailOf(p), "]")
<1>1. CASE p = "given"
  <2>1. TailOf(p) = <<":", "num">> BY <1>1 DEF TailOf
  <2>2. TailOf(p) \in Seq(Tokens) BY <2>1, Literals
  <2>3. Lacks(TailOf(p), "]") BY <2>1, Words DEF Lacks
  <2> QED BY <1>1, <2>1, <2>2, <2>3, ParsedRest
<1>2. CASE p = "default"
  <2>1. TailOf(p) = << >> BY <1>2 DEF TailOf
  <2>2. TailOf(p) \in Seq(Tokens) BY <2>1, Literals
  <2>3. Lacks(TailOf(p), "]") BY <2>1 DEF Lacks
  <2> QED BY <1>2, <2>1, <2>2, <2>3, ParsedRest
<1> QED BY <1>1, <1>2

(* The host and the scope inside the brackets are found again.             *)
LEMMA InsideParts ==
  ASSUME NEW f, NEW h, NEW sc \in {"none", "eth"},
         \/ f = "AF_INET" /\ h = <<"v4">> /\ sc = "none"
         \/ f = "AF_INET6" /\ h \in V6Texts
  PROVE  /\ h \in Seq(Tokens) /\ ZoneOf(sc) \in Seq(Tokens)
         /\ HostOf(h \o ZoneOf(sc)) = h /\ FamilyOf(h \o ZoneOf(sc)) = f
         /\ ScopeOf(h \o ZoneOf(sc)) = sc
         /\ ~(SepOf(h \o ZoneOf(sc)) # 0 /\ ScopeOf(h \o ZoneOf(sc)) = "none")
         /\ inet_pton(f, h) = h
<1>1. h \in Seq(Tokens)
  BY Literals
<1>2. inet_pton(f, h) = h
  BY Zenon DEF inet_pton
<1>3. CASE sc = "none"
  <2>1. ZoneOf(sc) = << >> BY <1>3 DEF ZoneOf
  <2>2. h \o ZoneOf(sc) = h BY <1>1, <2>1, ConcatEmptySeq
  <2>3. SepOf(h) = 0 /\ HostOf(h) = h /\ FamilyOf(h) = f
    BY InsideV4, InsideV6
  <2>4. ScopeOf(h) = "none" BY <2>3 DEF ScopeOf
  <2> QED BY <1>1, <1>2, <1>3, <2>1, <2>2, <2>3, <2>4, Literals
<1>4. CASE sc = "eth"
  <2>1. ZoneOf(sc) = <<"%", "eth">> /\ f = "AF_INET6" /\ h \in V6Texts
    BY <1>4 DEF ZoneOf
  <2>2. PICK ip : ip = h \o ZoneOf(sc) OBVIOUS
  <2>3. SepOf(ip) # 0 /\ HostOf(ip) = h /\ ScopeOf(ip) = "eth" /\ FamilyOf(ip) = "AF_INET6"
    BY <2>1, <2>2, InsideScope
  <2> QED BY <1>1, <1>2, <1>4, <2>1, <2>2, <2>3, Literals
<1> QED BY <1>3, <1>4

(* A bracketed text of the grammar is parsed to its address.               *)
LEMMA BracketComplete ==
  ASSUME NEW f, NEW h, NEW sc \in {"none", "eth"}, NEW p \in {"default", "given"},
         \/ f = "AF_INET" /\ h = <<"v4">> /\ sc = "none"
         \/ f = "AF_INET6" /\ h \in V6Texts,
         NEW s, s = Written(h, ZoneOf(sc), TailOf(p))
  PROVE  /\ s \in Seq(Tokens)
         /\ parse_addr(s) = Accept(<<"[">> \o h, f, h, sc, p)
<1>1. PICK ip : ip = h \o ZoneOf(sc) OBVIOUS
<1>2. /\ h \in Seq(Tokens) /\ ZoneOf(sc) \in Seq(Tokens)
      /\ HostOf(ip) = h /\ FamilyOf(ip) = f /\ ScopeOf(ip) = sc
      /\ ~(SepOf(ip) # 0 /\ ScopeOf(ip) = "none")
      /\ inet_pton(f, h) = h
  BY <1>1, InsideParts
<1>3. PICK t : t = TailOf(p) OBVIOUS
<1>4. t \in Seq(Tokens) /\ PortAfter(t) = p /\ Lacks(t, "]")
  BY <1>3, TailText
<1>5. ip \in Seq(Tokens) /\ s = InBrackets(ip, t)
  <2>1. PICK z : z = ZoneOf(sc) OBVIOUS
  <2>2. h \in Seq(Tokens) /\ z \in Seq(Tokens) BY <1>2, <2>1
  <2>3. h \o z \in Seq(Tokens) /\ InBrackets(h \o z, t) = Written(h, z, t)
    BY <1>4, <2>2, JoinZone
  <2> QED BY <1>1, <1>3, <2>1, <2>3
<1>6. /\ s \in Seq(Tokens) /\ Bracketed(s)
      /\ strrchr(s, "]") # 0 /\ Inside(s) = ip /\ Rest(s) = t
  BY <1>4, <1>5, BracketParts
<1>7. p \notin Errors
  BY DEF Errors
<1>8. parse_addr(s) = Accept(<<"[">> \o HostOf(ip), FamilyOf(ip),
                       inet_pton(FamilyOf(ip), HostOf(ip)), ScopeOf(ip), PortAfter(Rest(s)))
  BY <1>2, <1>4, <1>6, <1>7, BracketForm
<1> QED BY <1>2, <1>4, <1>6, <1>8

(* A plain text of the grammar is parsed to its address.                   *)
LEMMA PlainComplete ==
  ASSUME NEW p \in {"default", "given"},
         NEW s, s = <<"v4">> \o TailOf(p)
  PROVE  /\ s \in Seq(Tokens)
         /\ parse_addr(s) = Accept(<<"v4">>, "AF_INET", <<"v4">>, "none", p)
<1>0. inet_pton("AF_INET", <<"v4">>) = <<"v4">> /\ p \notin Errors
  BY DEF inet_pton, Errors
<1>1. CASE p = "default"
  <2>1. s = <<"v4">> /\ s \in Seq(Tokens)
    BY <1>1, Literals, ConcatEmptySeq DEF TailOf
  <2>2. strrchr(s, ":") = 0
    <3>1. \A j \in 1..Len(s) : s[j] # ":" BY <2>1, Words
    <3> QED BY <2>1, <3>1, NoPlace
  <2>3. ~Bracketed(s) BY <2>1, Words DEF Bracketed
  <2>4. parse_addr(s) =
          IF p \in Errors THEN Refuse(s, p)
          ELSE Accept(s, "AF_INET", inet_pton("AF_INET", s), "none", p)
    <3>1. LeftOf(s) = s /\ PortOf(s) = p BY <1>1, <2>2 DEF LeftOf, PortOf
    <3> QED BY <2>3, <3>1, PlainForm
  <2> QED BY <1>0, <2>1, <2>4
<1>2. CASE p = "given"
  <2>1. s = (<<"v4">> \o <<":">>) \o <<"num">>
    <3>1. <<":">> \o <<"num">> = <<":", "num">>
      BY Pair DEF Tokens
    <3>2. (<<"v4">> \o <<":">>) \o <<"num">> = <<"v4">> \o (<<":">> \o <<"num">>)
      BY Literals, ConcatAssociative
    <3>3. TailOf(p) = <<":", "num">> BY <1>2 DEF TailOf
    <3> QED BY <3>1, <3>2, <3>3, Zenon
  <2>2. <<"v4">> \in Seq(Tokens) /\ <<"num">> \in Seq(Tokens) /\ ":" \in Tokens
    BY Literals DEF Tokens
  <2>4. PICK b \in Seq(Tokens) : b = <<"v4">> BY <2>2
  <2>5. Len(b) = 1 /\ b[1] = "v4" BY <2>4, Words
  <2>6. /\ strrchr(s, ":") = Len(b) + 1 /\ Before(s, Len(b) + 1) = b
        /\ After(s, Len(b) + 1) = <<"num">>
    <3>1. PICK e \in Seq(Tokens) : e = <<"num">> BY <2>2
    <3>2. Lacks(e, ":") BY <3>1, Words DEF Lacks
    <3>3. s = Joined(b, ":", e) BY <2>1, <2>4, <3>1 DEF Joined
    <3>4. /\ strrchr(s, ":") = Len(b) + 1 /\ Before(s, Len(b) + 1) = b
          /\ After(s, Len(b) + 1) = e
      <4>1. /\ strrchr(Joined(b, ":", e), ":") = Len(b) + 1
            /\ Before(Joined(b, ":", e), Len(b) + 1) = b
            /\ After(Joined(b, ":", e), Len(b) + 1) = e
        BY <2>2, <3>2, CutJoined, Zenon
      <4> QED BY <3>3, <4>1, Zenon
    <3> QED BY <3>1, <3>4
  <2>7. s \in Seq(Tokens) /\ s[1] = b[1]
    <3>1. PICK e \in Seq(Tokens) : e = <<"num">> BY <2>2
    <3>2. s = Joined(b, ":", e) BY <2>1, <2>4, <3>1 DEF Joined
    <3>3. ":" \in Tokens BY <2>2
    <3>4. /\ Joined(b, ":", e) \in Seq(Tokens)
          /\ \A i \in 1..Len(b) : Joined(b, ":", e)[i] = b[i]
      BY <3>3, CutAt
    <3>5. 1 \in 1..Len(b) BY <2>5
    <3>6. Joined(b, ":", e)[1] = b[1] BY <3>4, <3>5, Zenon
    <3> QED BY <3>2, <3>4, <3>6, Zenon
  <2>8. ~Bracketed(s) BY <2>5, <2>7 DEF Bracketed
  <2>9. strrchr(s, ":") = 2 /\ Before(s, 2) = <<"v4">> /\ parse_port(After(s, 2)) = p
    BY <1>2, <2>4, <2>5, <2>6, ParsePort
  <2>10. parse_addr(s) =
          IF p \in Errors THEN Refuse(<<"v4">>, p)
          ELSE Accept(<<"v4">>, "AF_INET", inet_pton("AF_INET", <<"v4">>), "none", p)
    <3>1. LeftOf(s) = <<"v4">> /\ PortOf(s) = p BY <2>9 DEF LeftOf, PortOf
    <3> QED BY <2>8, <3>1, PlainForm
  <2> QED BY <1>0, <2>7, <2>10
<1> QED BY <1>1, <1>2

(* A text of the grammar is parsed to the address it stands for, and is    *)
(* left with the host alone, after the bracket if there was one.           *)
THEOREM ParseComplete ==
  ASSUME NEW s, NEW a \in Meaning(s)
  PROVE  /\ s \in Seq(Tokens)
         /\ parse_addr(s).ret = "ok" /\ parse_addr(s).addr = a
         /\ parse_addr(s).left \in {<<"[">> \o a.host}
                                     \cup IF a.family = "AF_INET" THEN {a.host} ELSE {}
         /\ a.family = "AF_INET" => a.host = <<"v4">>
         /\ a.host \in V6Texts \cup {<<"v4">>}
<1>1. a \in Addrs /\ s \in TextsOf(a) BY DEF Meaning
<1>2. PICK f : f = a.family OBVIOUS
<1>3. PICK h : h = a.host OBVIOUS
<1>4. PICK sc : sc = a.scope OBVIOUS
<1>5. PICK p : p = a.port OBVIOUS
<1>6. /\ sc \in {"none", "eth"} /\ p \in {"default", "given"}
      /\ \/ f = "AF_INET" /\ h = <<"v4">> /\ sc = "none"
         \/ f = "AF_INET6" /\ h \in V6Texts
      /\ a = [family |-> f, host |-> h, scope |-> sc, port |-> p]
  BY <1>1, <1>2, <1>3, <1>4, <1>5 DEF Addrs
<1>9. \/ s = Written(h, ZoneOf(sc), TailOf(p))
      \/ f = "AF_INET" /\ s = h \o TailOf(p)
  <2>1. TextsOf(a) = {Written(h, ZoneOf(sc), TailOf(p))}
                        \cup (IF f = "AF_INET" THEN {h \o TailOf(p)} ELSE {})
    BY <1>2, <1>3, <1>4, <1>5, Zenon DEF TextsOf, ZoneOf, TailOf, Written
  <2> QED BY <1>1, <2>1, Zenon
<1>10. CASE s = Written(h, ZoneOf(sc), TailOf(p))
  <2>1. s \in Seq(Tokens) /\ parse_addr(s) = Accept(<<"[">> \o h, f, h, sc, p)
    BY <1>6, <1>10, BracketComplete
  <2>2. /\ parse_addr(s).ret = "ok" /\ parse_addr(s).left = <<"[">> \o h
        /\ parse_addr(s).addr = [family |-> f, host |-> h, scope |-> sc, port |-> p]
    BY <2>1 DEF Accept
  <2> QED BY <1>2, <1>3, <1>6, <2>1, <2>2
<1>11. CASE f = "AF_INET" /\ s = h \o TailOf(p)
  <2>1. h = <<"v4">> /\ sc = "none" BY <1>6, <1>11
  <2>2. s \in Seq(Tokens) /\ parse_addr(s) = Accept(<<"v4">>, "AF_INET", <<"v4">>, "none", p)
    BY <1>6, <1>11, <2>1, PlainComplete
  <2>3. /\ parse_addr(s).ret = "ok" /\ parse_addr(s).left = <<"v4">>
        /\ parse_addr(s).addr = [family |-> "AF_INET", host |-> <<"v4">>, scope |-> "none", port |-> p]
    BY <2>2 DEF Accept
  <2> QED BY <1>2, <1>3, <1>6, <1>11, <2>1, <2>2, <2>3
<1> QED BY <1>9, <1>10, <1>11

(* What is left of a text of the grammar, parsed again.                    *)
LEMMA ParseAgain ==
  ASSUME NEW h \in V6Texts \cup {<<"v4">>}
  PROVE  /\ <<"[">> \o h \in Seq(Tokens)
         /\ parse_addr(<<"[">> \o h).ret = "EINVAL"
         /\ parse_addr(<<"[">> \o h).left = <<"[">> \o h
         /\ parse_addr(<<"v4">>) = Accept(<<"v4">>, "AF_INET", <<"v4">>, "none", "default")
<1>1. parse_addr(<<"v4">>) = Accept(<<"v4">>, "AF_INET", <<"v4">>, "none", "default")
  <2>1. <<"v4">> \o << >> = <<"v4">> BY Literals, ConcatEmptySeq
  <2>2. TailOf("default") = << >> BY DEF TailOf
  <2> QED BY <2>1, <2>2, PlainComplete
<1>2. PICK s : s = <<"[">> \o h OBVIOUS
<1>3. h \in Seq(Tokens) /\ Len(h) \in 1..3
  <2>1. CASE h = <<"v4">> BY <2>1, Literals
  <2>2. CASE h \in V6Texts
    <3>1. h \in Seq(Tokens) /\ Len(h) \in 2..3 BY <2>2, Literals, Words
    <3> QED BY <3>1
  <2> QED BY <2>1, <2>2
<1>4. /\ s \in Seq(Tokens) /\ Len(s) = 1 + Len(h)
      /\ \A i \in 1 .. 1 + Len(h) : s[i] = IF i <= 1 THEN <<"[">>[i] ELSE h[i - 1]
  <2>1. Len(<<"[">>) = 1 /\ <<"[">> \in Seq(Tokens) BY Literals, Words
  <2> QED BY <1>2, <1>3, <2>1, ConcatProperties
<1>5. s[1] = "[" /\ Bracketed(s)
  BY <1>3, <1>4, Words DEF Bracketed
<1>6. \A j \in 1..Len(h) : h[j] # "]"
  <2>1. CASE h = <<"v4">> BY <2>1, Words
  <2>2. CASE h \in V6Texts
    <3>1. Len(h) \in 2..3 /\ h[1] = ":" /\ h[2] = ":" /\ (Len(h) = 3 => h[3] = "num")
      BY <2>2, Words
    <3> QED BY <3>1
  <2> QED BY <2>1, <2>2
<1>7. \A j \in 1..Len(s) : s[j] # "]"
  <2> SUFFICES ASSUME NEW j \in 1..Len(s) PROVE s[j] # "]" OBVIOUS
  <2>1. CASE j = 1 BY <1>5, <2>1
  <2>2. CASE j # 1
    <3>1. j - 1 \in 1..Len(h) /\ ~(j <= 1) /\ j \in 1 .. 1 + Len(h) BY <1>3, <1>4, <2>2
    <3> QED BY <1>4, <1>6, <3>1
  <2> QED BY <2>1, <2>2
<1>8. strrchr(s, "]") = 0
  BY <1>4, <1>7, NoPlace
<1>9. parse_addr(s) = Refuse(s, "EINVAL")
  BY <1>5, <1>8, BracketForm
<1>10. parse_addr(s).ret = "EINVAL" /\ parse_addr(s).left = s
  BY <1>9 DEF Refuse
<1> QED BY <1>1, <1>2, <1>4, <1>10
=============================================================================
