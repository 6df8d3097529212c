---------------------------- MODULE MCFederation ----------------------------
(* Small exchanges between two practices, one workload per concern. *)
EXTENDS Federation

CONSTANTS t1, t2, t3, t4, a1, a2, k1, k2, o1, o2, o3, o4, n1, c1, c2

Offer(objects, stubs, caveats, key, defects) ==
    [transferred_objects |-> objects, obligations |-> stubs, caveats |-> caveats, key |-> key, defects |-> defects]
MCContract ==
    [t \in Transfers |->
        CASE t = t1 -> Offer({o1, o2}, <<"notify">>, TRUE, k1, {})
          [] t = t2 -> Offer({o1}, <<"notify", "attribute">>, FALSE, k2, {})
          [] t = t4 -> Offer({o1, o2}, <<"notify">>, FALSE, k1, {})
          [] t = t3 -> Offer({o1}, <<>>, FALSE, k1, {"signature_invalid"})]
Manifest(revision, key, defects) == [node |-> n1, revision |-> revision, key |-> key, defects |-> defects]
MCManifests == {Manifest(1, k1, {}), Manifest(2, k1, {}), Manifest(2, k2, {}), Manifest(1, k1, {"key_not_declared"})}
MCKeyWindow == [k \in Keys |-> IF k = k1 THEN [from |-> 0, until |-> 3] ELSE [from |-> 1, until |-> 4]]

Once(calls) == [w \in calls |-> 1]
Lifecycle(t) == {<<"create", t>>, <<"offer", t>>}
Answers(t, ds) == {<<"respond", t, d>> : d \in ds}
MCWork ==
    {\* manifests while keys are rotated and revoked
     Once({<<"receive", m>> : m \in Manifests} \cup {<<"rotate">>, <<"load">>}),
     Once({<<"receive", m>> : m \in {x \in Manifests : x.key = k1}} \cup {<<"revoke">>, <<"rotate">>, <<"load">>, <<"crash">>}),
     \* a key that comes back
     Once({<<"receive", Manifest(1, k1, {})>>, <<"revoke">>})
         @@ [w \in {<<"rotate">>, <<"load">>} |-> 2],
     \* answers while keys are rotated and revoked
     Once(Lifecycle(t2) \cup Answers(t2, {"accepted"}) \cup {<<"rotate">>, <<"load">>, <<"tick">>}),
     Once(Lifecycle(t2) \cup Answers(t2, {"deferred", "unresolved"}) \cup {<<"revoke">>, <<"rotate">>, <<"tick">>})
         @@ [w \in {<<"load">>} |-> 2],
     [w \in {<<"tick">>, <<"report">>} |-> 3],
     \* answers that race, and what they oblige to
     Once(Lifecycle(t1) \cup Answers(t1, {"accepted", "adapted", "rejected"})) @@ [w \in {<<"materialize", t1>>} |-> 2],
     Once(Lifecycle(t1) \cup Answers(t1, {"accepted"}) \cup {<<"crash">>}) @@ [w \in {<<"materialize", t1>>} |-> 2],
     \* answers to corrections
     [w \in {<<"response", n>> : n \in Notifications} |-> 2] @@ Once({<<"crash">>}),
     Once(Lifecycle(t3) \cup Answers(t3, Decisions)),
     \* one obligation while others build on its objects
     Once(Lifecycle(t4) \cup Answers(t4, {"adapted"}) \cup {<<"materialize", t4>>})
         @@ [w \in {<<"derive">>, <<"propagate">>} |-> 2],
     Once(Lifecycle(t4) \cup Answers(t4, {"accepted"})
              \cup {<<"materialize", t4>>, <<"resolved">>, <<"deferred">>, <<"propagate">>, <<"derive">>})}
MCNotified == [n \in Notifications |-> IF n = c1 THEN {o1} ELSE {o2}]
MCAdaptings == {{}, {<<o3, o1>>}, {<<o3, o1>>, <<o4, o2>>}}
MCDerivations == {<<o3, o1>>, <<o4, o3>>, <<o4, o2>>}
Symmetry == Permutations(Actors)
=============================================================================
