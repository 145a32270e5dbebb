----------------------------- MODULE MCThreads ------------------------------
(* Four parts whose threads owe each other something, each alone, in one   *)
(* run: `scene` picks the one that moves.  One output, with reconnect off  *)
(* and with two retries; one account's event transport and one             *)
(* destination's chat, both with restarts; the event store and its files.  *)
EXTENDS OutputLife, EventHub, ChatHub, EventFile

VARIABLE scene

sceneVars == <<scene, outputVars, hubVars, chatVars, fileVars>>

SceneInit ==
    /\ scene \in {"output", "hub", "chat", "store"}
    /\ OutputInit /\ HubInit /\ ChatInit /\ FileInit
    /\ scene # "output" => retryMax = 0

Scene(moving) ==
    /\ scene = moving
    /\ UNCHANGED scene
    /\ moving # "output" => UNCHANGED outputVars
    /\ moving # "hub" => UNCHANGED hubVars
    /\ moving # "chat" => UNCHANGED chatVars
    /\ moving # "store" => UNCHANGED fileVars

SceneNext ==
    \/ Scene("output") /\ OutputNext
    \/ Scene("hub") /\ HubNext
    \/ Scene("chat") /\ ChatNext
    \/ Scene("store") /\ FileNext

SceneSpec ==
    /\ SceneInit
    /\ [][SceneNext]_sceneVars
    /\ OutputFairness
    /\ HubFairness
=============================================================================
