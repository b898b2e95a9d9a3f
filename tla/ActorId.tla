------------------------------- MODULE ActorId -------------------------------
(***************************************************************************)
(* Actor ids (actor_name.go, actor_parse.go, actor_wrapper.go,             *)
(* reply_ref.go): "type/kind/name" with an "@address" if the type is       *)
(* direct, put together on one node from parts that are validated, all but *)
(* the kind of a spawned actor, and taken apart again on another, which may*)
(* be sent anything. Strings are short sequences of characters; "d" and "c"*)
(* stand for "direct" and "cluster", "r" for "reply", "x" for any other    *)
(* text without a separator.                                               *)
(***************************************************************************)
EXTENDS Naturals, Sequences, SequencesExt, FiniteSets

CONSTANTS
  Texts,    \* strings an application may pass as a kind or a name
  Addrs,    \* addresses; empty before Start
  Chars,    \* what a string off the wire is made of
  MaxWire,  \* bound: its length
  NoRef     \* no reference was built

VARIABLES
  path,     \* fullPath of the reference at hand
  built     \* the parts it was built from, or NoRef if it came off the wire

idVars == <<path, built>>

Parts(t, k, n, a) == [type |-> t, kind |-> k, name |-> n, addr |-> a]
Empty == Parts(<<>>, <<>>, <<>>, <<>>)

IdInit == path = <<>> /\ built = NoRef

\* ValidateActorName and validateKindName.
Valid(s) == s # <<>> /\ ~Contains(s, "/") /\ ~Contains(s, "@")

\* An address, host and port, has no separator.
ASSUME IdAssumption ==
  /\ Texts \subseteq Seq(Chars \cup {"r"})
  /\ \A a \in Addrs : a \in Seq(Chars) /\ (a = <<>> \/ Valid(a))

Builds(t, k, n, a) ==
  /\ path' = t \o <<"/">> \o k \o <<"/">> \o n \o (IF t = <<"d">> THEN <<"@">> \o a ELSE <<>>)
  /\ built' = Parts(t, k, n, a)

\* GetClusterActorRef panics on an invalid kind or name; "reply" is a valid kind.
NewClusterActorRef(k, n) ==
  /\ path = <<>> /\ Valid(k) /\ Valid(n)
  /\ Builds(<<"c">>, k, n, <<>>)

\* SpawnNamed refuses an invalid name. The kind is "local", or whatever WithOptsKindName says.
NewDirectActorRef(k, n, a) ==
  /\ path = <<>> /\ Valid(n)
  /\ Builds(<<"d">>, k, n, a)

\* A replyRef's id; its name is a number.
NewReplyRef(a) ==
  /\ path = <<>>
  /\ Builds(<<"d">>, <<"r">>, <<"x">>, a)

\* Anything may come off the wire (newActorRefFromAID).
Wire(ch) ==
  /\ built = NoRef /\ Len(path) < MaxWire
  /\ path' = Append(path, ch)
  /\ UNCHANGED built

IdNext ==
  \/ \E k, n \in Texts : NewClusterActorRef(k, n)
  \/ \E k, n \in Texts, a \in Addrs : NewDirectActorRef(k, n, a)
  \/ \E a \in Addrs : NewReplyRef(a)
  \/ \E ch \in Chars : Wire(ch)

IdSpec == IdInit /\ [][IdNext]_idVars

-----------------------------------------------------------------------------
\* The first place of ch in s, or 0.
IndexByte(s, ch) == SelectInSeq(s, LAMBDA e : e = ch)
Before(s, i) == IF i = 0 THEN s ELSE SubSeq(s, 1, i - 1)
After(s, i) == IF i = 0 THEN <<>> ELSE SubSeq(s, i + 1, Len(s))

\* Mutant: everything after the first '@' is the address.
ParseCacheOneAt(s) ==
  LET i == IndexByte(s, "/")  rest == After(s, i)
      j == IndexByte(rest, "/")  name == After(rest, j)
      k == IndexByte(name, "@")
  IN IF i = 0 \/ j = 0 \/ IndexByte(name, "/") # 0 THEN Empty
     ELSE Parts(Before(s, i), Before(rest, j), Before(name, k), After(name, k))

ParseCache(s) ==
  LET i == IndexByte(s, "/")  rest == After(s, i)
      j == IndexByte(rest, "/")  name == After(rest, j)
      k == IndexByte(name, "@")  addr == After(name, k)
  IN IF i = 0 \/ j = 0 \/ IndexByte(name, "/") # 0 THEN Empty
     ELSE Parts(Before(s, i), Before(rest, j), Before(name, k), Before(addr, IndexByte(addr, "@")))

IsDirect(s) == ParseCache(s).type = <<"d">>
IsAsk(s) == ParseCache(s).kind = <<"r">>

-----------------------------------------------------------------------------
\* p is what splitting gives: at '/' into exactly three pieces, the last of them at '@' into a
\* name, an address and a rest that is ignored.
IsSplit(s, p) ==
  LET Pieces(t, ch) == 1 + Cardinality({i \in 1 .. Len(t) : t[i] = ch})
  IN IF Pieces(s, "/") # 3 THEN p = Empty
     ELSE \E last \in {SubSeq(s, i, Len(s)) : i \in 1 .. Len(s) + 1} :
            /\ s = p.type \o <<"/">> \o p.kind \o <<"/">> \o last /\ ~Contains(last, "/")
            /\ ~Contains(p.name, "@") /\ ~Contains(p.addr, "@")
            /\ CASE Pieces(last, "@") = 1 -> last = p.name /\ p.addr = <<>>
                 [] Pieces(last, "@") = 2 -> last = p.name \o <<"@">> \o p.addr
                 [] OTHER -> IsPrefix(p.name \o <<"@">> \o p.addr \o <<"@">>, last)

(***************************************************************************)
(* parseCache "parses UNTRUSTED wire data ... so behaviour on garbage has  *)
(* to match exactly" that of splitting (actor_parse_test.go). "a name      *)
(* carrying one of them parses into a DIFFERENT id than it was built from" *)
(* (actor_name.go): a reference parses back, on any node, into all of its  *)
(* parts, or, if it is that of an actor spawned with a '/' in its kind,    *)
(* which nothing refuses, into none; it never passes for another. isDirect *)
(* and isAsk then hold of just what was built as direct, or with the kind  *)
(* "reply".                                                                *)
(***************************************************************************)
ParsesIntoItsParts ==
  /\ IsSplit(path, ParseCache(path))
  /\ built # NoRef =>
       IF Contains(built.kind, "/") THEN ParseCache(path) = Empty
       ELSE /\ ParseCache(path) = built
            /\ IsDirect(path) <=> built.type = <<"d">>
            /\ IsAsk(path) <=> built.kind = <<"r">>
=============================================================================
