----------------------------- MODULE PolicyServer -----------------------------
(***************************************************************************)
(* The answers of the policy server: the machine that lists and reads the  *)
(* policies (Policies) with the matcher (PolicyMatcher) on what it has     *)
(* read.                                                                   *)
(***************************************************************************)
EXTENDS Policies

CONSTANT
  Depth         \* bound on the evaluation of matchers

INSTANCE PolicyMatcher

NoAnswer == 0

\* Mutant of Status: a policy that does not exist is passed over.
StatusOfKnown(known, question) ==
  LET check(h) ==
        IF h.policy \notin DOMAIN known THEN 204
        ELSE IF PolicyMatching(known, question.request, known[h.policy], h.authorization, Depth) = "yes"
        THEN 204 ELSE 401
  IN FirstOther([i \in DOMAIN question.headers |-> check(question.headers[i])], 204)

\* Each Conductor-Policy header in turn: missing, not matching, or the next one.
Status(known, question) ==
  LET check(h) ==
        IF h.policy \notin DOMAIN known THEN 500
        ELSE CASE PolicyMatching(known, question.request, known[h.policy], h.authorization, Depth) = "yes" -> 204
               [] PolicyMatching(known, question.request, known[h.policy], h.authorization, Depth) = "no" -> 401
               [] OTHER -> NoAnswer   \* the program ends
  IN FirstOther([i \in DOMAIN question.headers |-> check(question.headers[i])], 204)

(***************************************************************************)
(* Properties                                                              *)
(***************************************************************************)
ByName == [n \in {c.name : c \in InFs} |-> CHOOSE c \in InFs : c.name = n]

\* "A matcher matches if all of its defined matchers succeeds. if nothing defined, it
\* does not match" (policy_matcher.go:32), for policies without cycles.
RECURSIVE Satisfied(_, _, _)
Satisfied(request, m, asked) ==
  LET auth == IF m.authz = None THEN asked ELSE MapAuthorization(m.authz, asked)
      of(ms, i) == Satisfied(request, ms[i], auth)
      policy == ByName[m.policy.name]
      defined == {d \in {"all", "any", "none", "bearer"} : m[d] # <<>>}
                 \union {d \in {"always"} : m.always}
                 \union {d \in {"origin"} : m.origin # {}}
                 \union {d \in {"policy"} : m.policy # None}
      succeeds(d) ==
        CASE d = "always" -> TRUE
          [] d = "all"    -> \A i \in DOMAIN m.all : of(m.all, i)
          [] d = "any"    -> \E i \in DOMAIN m.any : of(m.any, i)
          [] d = "none"   -> ~ \E i \in DOMAIN m.none : of(m.none, i)
          [] d = "bearer" -> \E i \in DOMAIN m.bearer :
                               BearerMatches(m.bearer[i], request, auth, m.defAuthz)
          [] d = "origin" -> request.origin \in m.origin
          [] d = "policy" ->
               /\ m.policy.name \in DOMAIN ByName
               /\ LET mapped == MapAuthorization(m.policy.authz, auth)
                      a == IF mapped = "" THEN policy.default ELSE mapped
                  IN  \E i \in DOMAIN policy.match : Satisfied(request, policy.match[i], a)
  IN  /\ ~m.never
      /\ m.skip => m.always
      /\ m.skip \/ (defined # {} /\ \A d \in defined : succeeds(d))

Permits(h, request) ==
  /\ h.policy \in DOMAIN ByName
  /\ LET policy == ByName[h.policy]
         auth == IF h.authorization = "" THEN policy.default ELSE h.authorization
     IN \E i \in DOMAIN policy.match : Satisfied(request, policy.match[i], auth)

Permitted(question) ==
  \A i \in DOMAIN question.headers : Permits(question.headers[i], question.request)

Answered(p) == proc[p].pc = "idle" /\ DOMAIN proc[p] # {"pc"}

\* Whatever other requests, migrations and kills come in between, a request is let
\* through only if every policy it names permits it, since a policy that is not found
\* does not match (policy_matcher.go:45, policy_server.go:33).  Worlds where a matcher
\* says "none" of another policy are left out: there not to find it is to match.
GrantedOnlyByMatch ==
  \A p \in Servers :
    Answered(p) /\ proc[p].status = 204 => Permitted(proc[p].question)

\* While requests come one at a time and none is killed, the migration of the policies
\* is invisible: what they permit is let through and the rest is not, with 401 where all
\* the policies named exist.  (Policies that refer to each other end the program.)
AnswerIsRight ==
  ~disturbed =>
    \A p \in Servers :
      LET status == proc[p].status
          question == proc[p].question
          known == \A i \in DOMAIN question.headers :
                     question.headers[i].policy \in DOMAIN ByName
      IN Answered(p) /\ status # NoAnswer =>
           /\ status = 204 <=> Permitted(question)
           /\ known => status \in {204, 401}
=============================================================================
