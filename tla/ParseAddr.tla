------------------------------ MODULE ParseAddr ------------------------------
(***************************************************************************)
(* parse_port and parse_addr (common/parse.h).  A text is a sequence of    *)
(* tokens: the punctuation the code looks for, and words that it hands to  *)
(* the C library, which is external:                                       *)
(*   "v4"   a dotted quad            "num"  a number that is a port        *)
(*   "big"  a number that is none    "eth"  the name of an interface       *)
(*   "x"    none of these                                                  *)
(* parse_addr cuts its argument at the separators, in place, and does not  *)
(* mend it: `left` is the text the caller's string holds afterwards.  Its  *)
(* one caller passes a default port, so that a port is never missing.      *)
(***************************************************************************)
EXTENDS Naturals, Sequences

Tokens == {"[", "]", ":", "%", "v4", "num", "big", "eth", "x"}

V6Texts == {<<":", ":">>, <<":", ":", "num">>}   \* "::" and "::1"

(* strrchr: the last place of c in the text, 0 for none.                   *)
strrchr(s, c) ==
  LET at == {i \in 1..Len(s) : s[i] = c} IN
  IF at = {} THEN 0 ELSE CHOOSE i \in at : \A j \in at : j <= i

Before(s, i) == SubSeq(s, 1, i - 1)
After(s, i)  == SubSeq(s, i + 1, Len(s))

(* strtol must take the whole text, and the number must be a port.         *)
parse_port(s) ==
  CASE s = <<"num">> -> "given"
    [] s = <<"big">> -> "ERANGE"
    [] OTHER         -> "EINVAL"

Errors == {"EINVAL", "ERANGE"}

(* inet_pton returns 0 for a text it cannot parse, which try does not take *)
(* for an error: the address stays as the caller zeroed it.                *)
inet_pton(family, s) ==
  IF \/ family = "AF_INET"  /\ s = <<"v4">>
     \/ family = "AF_INET6" /\ s \in V6Texts
    THEN s ELSE <<"unset">>

if_nametoindex(s) == IF s = <<"eth">> THEN "eth" ELSE "none"

Refuse(left, e) == [ret |-> e, left |-> left]

Accept(left, family, host, scope, port) ==
  [ret |-> "ok", left |-> left, addr |-> [family |-> family, host |-> host,
                                          scope |-> scope, port |-> port]]

(* Bug: what follows the bracket is not looked at.                         *)
AlwaysDefault(rest) == "default"

(* What follows the closing bracket.  Trailing bytes are reported and      *)
(* otherwise accepted: the port stays 0.                                   *)
PortAfter(rest) ==
  CASE rest = << >>    -> "default"
    [] rest # << >> /\ Head(rest) = ":" -> parse_port(Tail(rest))
    [] OTHER           -> "zero"

ParseBracketed(s) ==
  LET close == strrchr(s, "]")
      ip    == SubSeq(s, 2, close - 1)
      v6    == \E i \in 1..Len(ip) : ip[i] = ":"
      sep   == IF v6 THEN strrchr(ip, "%") ELSE 0
      host  == IF sep = 0 THEN ip ELSE Before(ip, sep)
      scope == IF sep = 0 THEN "none" ELSE if_nametoindex(After(ip, sep))
      port  == PortAfter(After(s, close))
      left  == <<"[">> \o host
      fam   == IF v6 THEN "AF_INET6" ELSE "AF_INET"
  IN
  IF close = 0 THEN Refuse(s, "EINVAL")
  ELSE IF sep # 0 /\ scope = "none" THEN Refuse(left, "EINVAL")
  ELSE IF port \in Errors THEN Refuse(left, port)
  ELSE Accept(left, fam, inet_pton(fam, host), scope, port)

ParsePlain(s) ==
  LET sep  == strrchr(s, ":")
      left == IF sep = 0 THEN s ELSE Before(s, sep)
      port == IF sep = 0 THEN "default" ELSE parse_port(After(s, sep))
  IN
  IF port \in Errors THEN Refuse(left, port)
  ELSE Accept(left, "AF_INET", inet_pton("AF_INET", left), "none", port)

(* Bug: the missing bracket is not refused, the text is taken as a plain   *)
(* one.                                                                    *)
UnclosedIsPlain(s) ==
  IF s # << >> /\ s[1] = "[" /\ strrchr(s, "]") # 0 THEN ParseBracketed(s)
                                                    ELSE ParsePlain(s)

parse_addr(s) ==
  IF s # << >> /\ s[1] = "[" THEN ParseBracketed(s) ELSE ParsePlain(s)

-----------------------------------------------------------------------------
(***************************************************************************)
(* The reference: which texts stand for an address, "ip:port" with the ip  *)
(* in brackets (IPv6) or optionally so (IPv4), and the port optional.      *)
(***************************************************************************)
Addrs ==
       [family : {"AF_INET"},  host : {<<"v4">>}, scope : {"none"},
        port : {"default", "given"}]
  \cup [family : {"AF_INET6"}, host : V6Texts, scope : {"none", "eth"},
        port : {"default", "given"}]

TextsOf(a) ==
  LET tail == IF a.port = "given" THEN <<":", "num">> ELSE << >>
      zone == IF a.scope = "eth" THEN <<"%", "eth">> ELSE << >>
  IN  {<<"[">> \o a.host \o zone \o <<"]">> \o tail}
        \cup (IF a.family = "AF_INET" THEN {a.host \o tail} ELSE {})

Meaning(s) == {a \in Addrs : s \in TextsOf(a)}
=============================================================================
