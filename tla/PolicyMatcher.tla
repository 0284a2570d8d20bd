---------------------------- MODULE PolicyMatcher ----------------------------
(***************************************************************************)
(* Whether a policy matches a request.  A policy is a list of matchers, a  *)
(* matcher a tree of conditions on the request and on an authorization     *)
(* that is translated on the way down.                                     *)
(*                                                                         *)
(* A policy may refer to another one by name and nothing looks for cycles: *)
(* evaluation is cut at a depth, and what is cut is "overflow", the stack  *)
(* overflow that ends the program.                                         *)
(***************************************************************************)
EXTENDS Integers, Sequences, SequencesExt

CONSTANT
  None          \* what a field is when it is left out

\* Tables of authorizations are functions of strings, "" their default key.
Lookup(table, key, default) ==
  IF key \in DOMAIN table THEN table[key] ELSE default

Get(list, name) == Lookup(list, name, Lookup(list, "", FALSE))

MapAuthorization(table, authorization) ==
  IF table = None THEN ""
  ELSE LET found == SelectSeq(<<Lookup(table, authorization, ""), Lookup(table, "", "")>>,
                              LAMBDA a : a # "")
       IN  Head(Append(found, authorization))

\* No condition: what a matcher is when all its fields are left out.
Blank == [authz |-> None, defAuthz |-> None, always |-> FALSE, never |-> FALSE,
          skip |-> FALSE, all |-> <<>>, any |-> <<>>, none |-> <<>>,
          bearer |-> <<>>, origin |-> {}, policy |-> None]

\* A bearer: a token, the tokens its JWT key verifies, and who may use it.  The
\* first header that does not fall short decides; one that defines nothing never
\* matches.
BearerMatches(bearer, request, authorization, defAuthz) ==
  LET authz == IF bearer.authz = None THEN defAuthz ELSE bearer.authz
  IN /\ authz # None => Get(authz, authorization)
     /\ bearer.token # None \/ bearer.jwt # None
     /\ \E t \in request.tokens :
          /\ bearer.token # None => t = bearer.token
          /\ bearer.jwt # None => t \in bearer.jwt

Bool(b) == IF b THEN "yes" ELSE "no"

\* Results are looked at in order until one is not what lets the loop go on.
FirstOther(results, goOn) ==
  Head(Append(SelectSeq(results, LAMBDA r : r # goOn), goOn))

RECURSIVE Matching(_, _, _, _, _)
PolicyMatching(known, request, policy, asked, depth) ==
  LET authorization == IF asked = "" THEN policy.default ELSE asked
  IN  FirstOther([i \in DOMAIN policy.match |->
        Matching(known, request, policy.match[i], authorization, depth)], "no")

\* known: the policies by name.
Matching(known, request, m, asked, depth) ==
  LET authorization == IF m.authz = None THEN asked
                       ELSE MapAuthorization(m.authz, asked)
      each(ms) == [i \in DOMAIN ms |->
                     Matching(known, request, ms[i], authorization, depth - 1)]
      section(defined, result) == IF defined THEN <<result>> ELSE <<>>
      none == FirstOther(each(m.none), "no")
      sections ==
        section(m.always, "yes")
        \o section(m.all # <<>>, FirstOther(each(m.all), "yes"))
        \o section(m.any # <<>>, FirstOther(each(m.any), "no"))
        \o section(m.none # <<>>, IF none = "overflow" THEN none ELSE Bool(none = "no"))
        \o section(m.bearer # <<>>, Bool(\E i \in DOMAIN m.bearer :
             BearerMatches(m.bearer[i], request, authorization, m.defAuthz)))
        \o section(m.origin # {}, Bool(request.origin \in m.origin))
        \o section(m.policy # None,
             IF m.policy.name \notin DOMAIN known THEN "no"
             ELSE PolicyMatching(known, request, known[m.policy.name],
                    MapAuthorization(m.policy.authz, authorization), depth - 1))
  IN  IF depth = 0 THEN "overflow"
      ELSE IF m.never THEN "no"
      ELSE IF m.skip THEN Bool(m.always)
      ELSE IF sections = <<>> THEN "no"
      ELSE FirstOther(sections, "yes")
=============================================================================
