------------------------------ MODULE MCGateway -------------------------------
(* Gateway with two pools, an aggregator and another provider. *)
EXTENDS Gateway, TLC

CONSTANTS c1, a1, l2, n3, l3, n4, l4, or, groq, m1, m2, m3, m4

MCPool == {"coding", "general_agent"}

\* c1 and a1 are one model of the aggregator in both pools; l2 is a route that the
\* ledger gives to a model the probe pings; n3 and l3 are the routes that a probe and
\* the next start give a free model found by the probe, n4 and l4 those that they would
\* give to a retired one.
MCPoolOf == c1 :> "coding" @@ a1 :> "general_agent"
            @@ l2 :> "coding" @@ n3 :> "coding" @@ l3 :> "coding"
            @@ n4 :> "coding" @@ l4 :> "coding"
MCProviderOf == c1 :> or @@ a1 :> or @@ l2 :> groq @@ n3 :> or @@ l3 :> or
                @@ n4 :> or @@ l4 :> or
MCModelOf == c1 :> m1 @@ a1 :> m1 @@ l2 :> m2 @@ n3 :> m3 @@ l3 :> m3
             @@ n4 :> m4 @@ l4 :> m4
MCListed == "coding" :> <<c1>> @@ "general_agent" :> <<a1>>
MCCanaryRoute == m3 :> n3 @@ m4 :> n4
MCLedgerRoute == m2 :> l2 @@ m3 :> l3 @@ m4 :> l4

Times(serve, dispatch, start, stop, trigger, restart, failure) ==
    [h \in Happening |-> CASE h = "serve" -> serve [] h = "dispatch" -> dispatch
                           [] h = "start" -> start [] h = "stop" -> stop
                           [] h = "trigger" -> trigger [] h = "restart" -> restart
                           [] OTHER -> failure]

\* Requests and one that fails twice, around a restart; both loops; the scheduler's
\* threads; probes around a restart, alone and with a request; a probe and dispatch.
MCWorkload == {Times(2, 0, 0, 0, 0, 1, 1), Times(1, 0, 0, 0, 0, 1, 2),
               Times(1, 1, 0, 0, 0, 0, 2), Times(0, 0, 2, 2, 0, 0, 1),
               Times(0, 0, 1, 1, 1, 1, 0), Times(1, 0, 0, 0, 1, 1, 1),
               Times(0, 1, 0, 0, 1, 0, 1)}
=============================================================================
