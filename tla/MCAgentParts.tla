----------------------------- MODULE MCAgentParts -----------------------------
(***************************************************************************)
(* Eight parts of the Agent that share no state, checked in one run: the   *)
(* endpoint tracker, the activity moments, the last-active times, the live *)
(* feed, the call history, and the connections to the PBX - the AMI        *)
(* session, the JTAPI bridge and the Yeastar session.  Each behaviour is   *)
(* one of one part; the others stay as they are at the start.              *)
(***************************************************************************)
EXTENDS EndpointTracker, ActivityMoments, LastActive, LiveFeed, CallHistory,
        AmiSession, JtapiBridge, YeastarSession

CONSTANTS phone1, phone2, queue1, trunk1, record1, record2, item1, text1, text2

\* Offices with phones, with a queue and a trunk, and with a queue and two records.
MCOffices ==
    {[phones |-> {phone1, phone2}, queues |-> {}, trunks |-> {}, records |-> {}],
     [phones |-> {}, queues |-> {queue1}, trunks |-> {trunk1}, records |-> {record1}],
     [phones |-> {}, queues |-> {queue1}, trunks |-> {}, records |-> {record1, record2}]}

MCPayload(l, r, w, e) ==
    [listed |-> [i \in Items |-> l], roster |-> [i \in Items |-> r], whole |-> w, rest |-> e]

\* Items come, change and go, and some payloads differ only in one part.
MCPayloads ==
    {MCPayload(Gone, text1, text1, text1), MCPayload(text1, text1, text1, text1),
     MCPayload(text2, Gone, text1, text1), MCPayload(text2, text1, text2, text2),
     MCPayload(text2, text1, text1, text2), MCPayload(Gone, text2, text2, text1)}

MCPacket(e, x, s) == [event |-> e, about |-> x, says |-> s]

\* An Asterisk with PJSIP phones, one of them with two contacts, one whose phones
\* are chan_sip peers, and one with a phone of each kind.
MCPbxs ==
    {[CoreShowChannels |-> <<MCPacket("CoreShowChannel", "call", "")>>,
      PJSIPShowEndpoints |-> <<MCPacket("EndpointList", "desk", "up"),
                               MCPacket("EndpointList", "home", "down")>>,
      PJSIPShowContacts |-> <<MCPacket("ContactList", "desk", "up"),
                              MCPacket("ContactList", "desk", "down")>>,
      QueueStatus |-> <<MCPacket("QueueParams", "sales", 2),
                        MCPacket("QueueEntry", "sales", ""),
                        MCPacket("QueueEntry", "sales", "")>>,
      SIPpeers |-> Unsupported],
     [CoreShowChannels |-> <<>>,
      PJSIPShowEndpoints |-> Unsupported,
      PJSIPShowContacts |-> Unsupported,
      QueueStatus |-> <<MCPacket("QueueParams", "sales", 0),
                        MCPacket("QueueMember", "sales", "")>>,
      SIPpeers |-> <<MCPacket("PeerEntry", "desk", "up"),
                     MCPacket("PeerEntry", "home", "down")>>],
     [CoreShowChannels |-> <<>>,
      PJSIPShowEndpoints |-> <<MCPacket("EndpointList", "desk", "down")>>,
      PJSIPShowContacts |-> <<MCPacket("ContactList", "desk", "up")>>,
      QueueStatus |-> <<>>,
      SIPpeers |-> <<MCPacket("PeerEntry", "home", "up")>>]}

VARIABLE part

\* The history and the connections to the PBX.
Readers == <<historyVars, sessionVars, bridgeVars, yeastarVars>>

agentPartVars ==
    <<part, trackerVars, momentVars, lastActiveVars, feedVars, Readers>>

AgentPartsInit ==
    /\ part \in {"tracker", "moments", "lastActive", "feed", "history", "ami", "jtapi", "yeastar"}
    /\ TrackerInit
    /\ MomentsInit
    /\ LastActiveInit
    /\ FeedInit
    /\ HistoryInit
    /\ SessionInit
    /\ BridgeInit
    /\ YeastarInit
    /\ part # "moments" => office = CHOOSE o \in Offices : TRUE
    /\ part # "feed" => payload = shown /\ payload = CHOOSE p \in Payloads : TRUE
    /\ part # "ami" => pbx = CHOOSE p \in Pbxs : TRUE

AgentPartsNext ==
    /\ UNCHANGED part
    /\ \/ /\ part = "tracker"
          /\ TrackerNext
          /\ UNCHANGED <<momentVars, lastActiveVars, feedVars, Readers>>
       \/ /\ part = "moments"
          /\ MomentsNext
          /\ UNCHANGED <<trackerVars, lastActiveVars, feedVars, Readers>>
       \/ /\ part = "lastActive"
          /\ LastActiveNext
          /\ UNCHANGED <<trackerVars, momentVars, feedVars, Readers>>
       \/ /\ part = "feed"
          /\ FeedNext
          /\ UNCHANGED <<trackerVars, momentVars, lastActiveVars, Readers>>
       \/ /\ part = "history"
          /\ HistoryNext
          /\ UNCHANGED <<trackerVars, momentVars, lastActiveVars, feedVars>>
          /\ UNCHANGED <<sessionVars, bridgeVars, yeastarVars>>
       \/ /\ part = "ami"
          /\ SessionNext
          /\ UNCHANGED <<trackerVars, momentVars, lastActiveVars, feedVars>>
          /\ UNCHANGED <<historyVars, bridgeVars, yeastarVars>>
       \/ /\ part = "jtapi"
          /\ BridgeNext
          /\ UNCHANGED <<trackerVars, momentVars, lastActiveVars, feedVars>>
          /\ UNCHANGED <<historyVars, sessionVars, yeastarVars>>
       \/ /\ part = "yeastar"
          /\ YeastarNext
          /\ UNCHANGED <<trackerVars, momentVars, lastActiveVars, feedVars>>
          /\ UNCHANGED <<historyVars, sessionVars, bridgeVars>>

\* The fairness of each part, which another part's behaviours must not be asked for.
FeedIsFair ==
    /\ WF_feedVars(part = "feed" /\ Connect)
    /\ WF_feedVars(part = "feed" /\ SendChanges)
    /\ WF_feedVars(part = "feed" /\ Read)

BridgeIsFair ==
    /\ WF_bridgeVars(part = "jtapi" /\ BridgeTick)
    /\ WF_bridgeVars(part = "jtapi" /\ SomeFindsNone)
    /\ WF_bridgeVars(part = "jtapi" /\ SomeStarts)
    /\ WF_bridgeVars(part = "jtapi" /\ SomeRead)

YeastarIsFair ==
    /\ WF_yeastarVars(part = "yeastar" /\ BeginRequests(Publisher))
    /\ \A u \in Users : WF_yeastarVars(part = "yeastar" /\ Works(u))
    /\ SF_yeastarVars(part = "yeastar" /\ YeastarTick)

AgentPartsSpec ==
    /\ AgentPartsInit /\ [][AgentPartsNext]_agentPartVars
    /\ FeedIsFair /\ BridgeIsFair /\ YeastarIsFair

\* The liveness of two parts, said of the behaviours of that part.
BridgeComesBack == part = "jtapi" => BridgeReturns

YeastarComesBack == part = "yeastar" => YeastarRecovers
==============================================================================
