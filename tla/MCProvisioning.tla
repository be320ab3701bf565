--------------------------- MODULE MCProvisioning ---------------------------
EXTENDS Provisioning, TLC

CONSTANTS a, b, h, g

Request(name_, host_, identity_) ==
  [name |-> name_, host |-> host_, identity |-> identity_, exposed |-> TRUE]

Hidden(request) == [request EXCEPT !.exposed = FALSE]

Case(ofA, ofB, timeouts_, deletions_) ==
  [asked |-> (a :> ofA) @@ (b :> ofB), timeouts |-> timeouts_, deletions |-> deletions_]

(* Two tenants that want the same virtual host, without and with a         *)
(* timeout, and then one of them wants no ingress; two that want the same  *)
(* name; one beside a tenant that cannot be given an identity; two that    *)
(* have the same virtual host one after the other, and two that have the   *)
(* same name as well.                                                      *)
MCCases == {
  Case(Request(a, h, "keycloak"), Request(b, h, "external"), 0, 0),
  Case(Request(a, h, "external"), Hidden(Request(b, h, "external")), 1, 0),
  Case(Request(a, h, "external"), Request(a, g, "external"), 1, 0),
  Case(Request(a, h, "keycloak"), Request(b, g, "missing"), 1, 0),
  Case(Request(a, h, "external"), Request(b, h, "external"), 0, 1),
  Case(Request(a, h, "external"), Request(a, h, "external"), 0, 2) }
=============================================================================
