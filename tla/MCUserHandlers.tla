--------------------------- MODULE MCUserHandlers ---------------------------
(***************************************************************************)
(* Users with two versions of their credentials, two inbounds.              *)
(***************************************************************************)
EXTENDS UserHandlers, TLC

CONSTANTS r1, r2, u1, u2, v1, v2, t1, t2, ip1, ip2, i1, i2

\* A core with both inbounds and the first version of every user at both, or
\* with one inbound and no user.
MCConfigs ==
  {[t \in Tags |-> [u \in Users |-> v1]],
   [t \in {t1} |-> [u \in Users |-> NoVersion]]}

\* The same for every user of the request.
Input(kind, users, tags, version, previous) ==
  [kind |-> kind, users |-> users, tags |-> [u \in Users |-> tags], affected |-> {},
   version |-> [u \in Users |-> version], previous |-> [u \in Users |-> previous],
   ips |-> IF kind = "dropIPs" THEN IPs ELSE {}]

\* Two users in bulk, at inbounds of their own and with credentials of their own.
MCBulk ==
  [Input("addMany", {u1, u2}, {t1}, v2, v1) EXCEPT
     !.tags[u2] = {t2}, !.version[u2] = v1, !.previous[u2] = v2, !.affected = {t1, t2}]

\* One request at a time, of every kind: with and without a previous version,
\* tags, users.
MCSingleInputs ==
  {Input("add", {u1}, {t1}, v2, v1),
   Input("add", {u1}, {t1, t2}, v2, NoVersion),
   Input("add", {u1}, {}, v2, NoVersion),
   Input("addMany", {u1}, {t2}, v2, v1),
   Input("addMany", {}, {}, v2, v1),
   MCBulk,
   Input("remove", {u1}, {}, v2, NoVersion),
   Input("removeMany", {u1}, {}, v1, NoVersion),
   Input("dropUsers", {u1}, {}, v1, NoVersion),
   Input("dropUsers", {}, {}, v1, NoVersion),
   Input("dropIPs", {}, {}, v1, NoVersion)}

\* Two at a time, for the same user or for different ones.
MCPairInputs ==
  {Input("add", {u1}, {t2}, v2, v1),
   Input("addMany", {u2}, {t1}, v2, v1),
   Input("remove", {u2}, {}, v2, NoVersion)}

\* Re-registrations.
MCSwaps == {Input("add", {u1}, {t1}, v2, v1)}

Interchangeable == Permutations(Requests) \cup Permutations(Instances)
=============================================================================
