---------------------------- MODULE ServiceProofs ----------------------------
(* That the parts of the service that talk to others keep what their own    *)
(* modules prove of them: the stream of the gateway, the demonstration, the *)
(* record, the follow-ups, the triggers, the examples and the model.        *)
EXTENDS MCService, TLAPS

ChannelP == INSTANCE ChannelProofs WITH
  MaxMessages <- 2, MaxSockets <- 1, MaxRestarts <- 1, MaxFailures <- 1,
  sent <- s1, base <- s2, restarts <- s3, stage <- s4, latest <- s5,
  seen <- s6, socket <- s7, abandoned <- s8, chain <- s9, step <- s10,
  cursor <- s11, saved <- s12, inbox <- s13, failures <- s14,
  Browsers <- {b1, b2},
  Outgoing <- {m \in BriData!Messages : m.type \in {"text", ""}},
  Replies <- {r \in BriData!AnyReply : r.type \in {"text", "image"}},
  Envelopes <- BriData!AnyEnvelope, RecentLimit <- 2, ReplayLimit <- 2,
  PendingLimit <- 2, MaxActs <- 3, MaxEnvelopes <- 1, session <- s1,
  recent <- s2, pending <- s3, counted <- s4, ghosts <- s5, frames <- s6,
  link <- s7, own <- s8, chat <- s9, warned <- s10, posted <- s11,
  arrived <- s12, emitted <- s13, acts <- s14,
  Page <- 1, MaxStaff <- 1, MaxCalls <- 3, rows <- s1, ids <- s2, late <- s3,
  right <- s4, call <- s5, scan <- s6, churn <- s7, proof <- s8, doubt <- s9,
  asked <- s10, blind <- s11, slipped <- s12, staff <- s13, calls <- s14,
  Package <- {p1, p2}, MaxBuilds <- 2, MaxStarts <- 1, MaxLoads <- 2,
  meta <- s1, vectors <- s2, build <- s3, mine <- s4, load <- s5, index <- s6,
  old <- s7, last <- s8, builds <- s9, starts <- s10, loads <- s11,
  Answers <- ModData!Said, MaxChunk <- 4, streaming <- s1, moment <- s2,
  tries <- s3, meant <- s4, spoilt <- s5, send <- s6, rest <- s7, text <- s8,
  broken <- s9, result <- s10
ContactP == INSTANCE ContactProofs WITH
  LastDay <- 33, LastWord <- 3, MaxActs <- 1, MaxLosses <- 1, edition <- s1,
  now <- s2, case <- s3, task <- s4, unread <- s5, owed <- s6, rows <- s7,
  lock <- s8, sent <- s9, writes <- s10, office <- s11, losses <- s12,
  Trigger <- {t1}, Project <- {p1, p2}, Poller <- {w1, w2}, MaxStaff <- 1,
  MaxLapses <- 1, of <- s1, pending <- s2, broken <- s3, card <- s4,
  trig <- s5, file <- s6, poll <- s7, holder <- s8, found <- s9, late <- s10,
  staff <- s11, lapses <- s12

(* A part is the same under either name.                                    *)
LEMMA SameStream ==
  /\ Str!Init <=> ChannelP!Init
  /\ Str!Next <=> ChannelP!Next
  /\ [Str!Next]_(Str!vars) <=> [ChannelP!Next]_(ChannelP!vars)
  BY ZenonT(60) DEF Str!Init, ChannelP!Init, Str!Next, ChannelP!Next, Str!Receives,
    ChannelP!Receives, Str!Kinds, ChannelP!Kinds, Str!connect, ChannelP!connect, Str!intake,
    ChannelP!intake, Str!Restarts, ChannelP!Restarts, Str!Carries, ChannelP!Carries, Str!Kept,
    ChannelP!Kept, Str!gateway, ChannelP!gateway, Str!Drops, ChannelP!Drops, Str!Connecting,
    ChannelP!Connecting, Str!Health, ChannelP!Health, Str!Load, ChannelP!Load, Str!Apply,
    ChannelP!Apply, Str!Restarted, ChannelP!Restarted, Str!Opened, ChannelP!Opened, Str!Reset,
    ChannelP!Reset, Str!Closes, ChannelP!Closes, Str!Delivering, ChannelP!Delivering, Str!PassOver,
    ChannelP!PassOver, Str!Passed, ChannelP!Passed, Str!Cur, ChannelP!Cur, Str!Handle,
    ChannelP!Handle, Str!Commits, ChannelP!Commits, Str!Range, ChannelP!Range, Str!SaveCursor,
    ChannelP!SaveCursor, Str!Fails, ChannelP!Fails, Str!Abandoned, ChannelP!Abandoned, Str!Crashes,
    ChannelP!Crashes, Str!vars, ChannelP!vars

LEMMA SameBridge ==
  /\ Bri!Init <=> ChannelP!Emu!Init
  /\ Bri!Next <=> ChannelP!Emu!Next
  /\ [Bri!Next]_(Bri!vars) <=> [ChannelP!Emu!Next]_(ChannelP!Emu!vars)
  BY ZenonT(60) DEF Bri!Init, ChannelP!Emu!Init, Bri!Next, ChannelP!Emu!Next, Bri!SendToEmulator,
    ChannelP!Emu!SendToEmulator, Bri!Act, ChannelP!Emu!Act, Bri!ParseWhatsAppPayload,
    ChannelP!Emu!ParseWhatsAppPayload, Bri!InteractiveType, ChannelP!Emu!InteractiveType,
    Bri!Nothing, ChannelP!Emu!Nothing, Bri!EmitUiMessage, ChannelP!Emu!EmitUiMessage, Bri!LastOf,
    ChannelP!Emu!LastOf, Bri!ToAll, ChannelP!Emu!ToAll, Bri!MessageFrame, ChannelP!Emu!MessageFrame,
    Bri!ui, ChannelP!Emu!ui, Bri!bot, ChannelP!Emu!bot, Bri!ClearUi, ChannelP!Emu!ClearUi,
    Bri!SessionFrame, ChannelP!Emu!SessionFrame, Bri!Restart, ChannelP!Emu!Restart, Bri!Notice,
    ChannelP!Emu!Notice, Bri!Connection, ChannelP!Emu!Connection, Bri!Replay, ChannelP!Emu!Replay,
    Bri!Receive, ChannelP!Emu!Receive, Bri!OnSession, ChannelP!Emu!OnSession, Bri!OnMessage,
    ChannelP!Emu!OnMessage, Bri!Shown, ChannelP!Emu!Shown, Bri!Break, ChannelP!Emu!Break,
    Bri!HandleReply, ChannelP!Emu!HandleReply, Bri!Envelope, ChannelP!Emu!Envelope,
    Bri!ConstructWebhookPayload, ChannelP!Emu!ConstructWebhookPayload, Bri!Deliver,
    ChannelP!Emu!Deliver, Bri!Read, ChannelP!Emu!Read, Bri!ToSet, ChannelP!Emu!ToSet,
    Bri!NormalizeWebhook, ChannelP!Emu!NormalizeWebhook, Bri!Refusal, ChannelP!Emu!Refusal,
    Bri!Wellformed, ChannelP!Emu!Wellformed, Bri!Clean, ChannelP!Emu!Clean, Bri!Type,
    ChannelP!Emu!Type, Bri!NeutralizeSystemMarkers, ChannelP!Emu!NeutralizeSystemMarkers,
    Bri!Button, ChannelP!Emu!Button, Bri!ReplyButtons, ChannelP!Emu!ReplyButtons, Bri!Trimmed,
    ChannelP!Emu!Trimmed, Bri!HasMedia, ChannelP!Emu!HasMedia, Bri!Refuses, ChannelP!Emu!Refuses,
    Bri!To, ChannelP!Emu!To, Bri!EnvelopeArrives, ChannelP!Emu!EnvelopeArrives, Bri!vars,
    ChannelP!Emu!vars

LEMMA SameRecord ==
  /\ Rec!Init <=> ChannelP!Rec!Init
  /\ Rec!Next <=> ChannelP!Rec!Next
  /\ [Rec!Next]_(Rec!vars) <=> [ChannelP!Rec!Next]_(ChannelP!Rec!vars)
  BY ZenonT(180) DEF Rec!Init, ChannelP!Rec!Init, Rec!Idle, ChannelP!Rec!Idle, Rec!NoScan,
    ChannelP!Rec!NoScan, Rec!Ours, ChannelP!Rec!Ours, Rec!Next, ChannelP!Rec!Next, Rec!Staff,
    ChannelP!Rec!Staff, Rec!StaffAdd, ChannelP!Rec!StaffAdd, Rec!Added, ChannelP!Rec!Added,
    Rec!Acts, ChannelP!Rec!Acts, Rec!StaffRemove, ChannelP!Rec!StaffRemove, Rec!RemoveAt,
    ChannelP!Rec!RemoveAt, Rec!StaffAlter, ChannelP!Rec!StaffAlter, Rec!Altered,
    ChannelP!Rec!Altered, Rec!StaffRelink, ChannelP!Rec!StaffRelink, Rec!Arrives,
    ChannelP!Rec!Arrives, Rec!history, ChannelP!Rec!history, Rec!Gateway, ChannelP!Rec!Gateway,
    Rec!VerifyCatalogue, ChannelP!Rec!VerifyCatalogue, Rec!Ends, ChannelP!Rec!Ends, Rec!provider,
    ChannelP!Rec!provider, Rec!CheckIdentity, ChannelP!Rec!CheckIdentity, Rec!IdentityMatches,
    ChannelP!Rec!IdentityMatches, Rec!Begin, ChannelP!Rec!Begin, Rec!Standing,
    ChannelP!Rec!Standing, Rec!ReadPage, ChannelP!Rec!ReadPage, Rec!Scanning, ChannelP!Rec!Scanning,
    Rec!Broken, ChannelP!Rec!Broken, Rec!Changed, ChannelP!Rec!Changed, Rec!Repeated,
    ChannelP!Rec!Repeated, Rec!ToSet, ChannelP!Rec!ToSet, Rec!PageOf, ChannelP!Rec!PageOf, Rec!Min,
    ChannelP!Rec!Min, Rec!Got, ChannelP!Rec!Got, Rec!Whole, ChannelP!Rec!Whole, Rec!Decide,
    ChannelP!Rec!Decide, Rec!Refuses, ChannelP!Rec!Refuses, Rec!Stale, ChannelP!Rec!Stale, Rec!Of,
    ChannelP!Rec!Of, Rec!Conflict, ChannelP!Rec!Conflict, Rec!Duplicate, ChannelP!Rec!Duplicate,
    Rec!Cardinality, ChannelP!Rec!Cardinality, Rec!Matching, ChannelP!Rec!Matching, Rec!Proves,
    ChannelP!Rec!Proves, Rec!ProvedRow, ChannelP!Rec!ProvedRow, Rec!MayWrite, ChannelP!Rec!MayWrite,
    Rec!Write, ChannelP!Rec!Write, Rec!Applies, ChannelP!Rec!Applies, Rec!Lost, ChannelP!Rec!Lost,
    Rec!Delayed, ChannelP!Rec!Delayed, Rec!Ask, ChannelP!Rec!Ask, Rec!AfterWrite,
    ChannelP!Rec!AfterWrite, Rec!NotSent, ChannelP!Rec!NotSent, Rec!CheckAgain,
    ChannelP!Rec!CheckAgain, Rec!ReadBack, ChannelP!Rec!ReadBack, Rec!Call, ChannelP!Rec!Call,
    Rec!Crash, ChannelP!Rec!Crash, Rec!vars, ChannelP!Rec!vars

LEMMA SameFollow ==
  /\ Fol!Init <=> ContactP!Init
  /\ Fol!Next <=> ContactP!Next
  /\ [Fol!Next]_(Fol!vars) <=> [ContactP!Next]_(ContactP!vars)
  BY ZenonT(60) DEF Fol!Init, ContactP!Init, Fol!Free, ContactP!Free, Fol!Next, ContactP!Next,
    Fol!ClientWrites, ContactP!ClientWrites, Fol!Write, ContactP!Write, Fol!Heard, ContactP!Heard,
    Fol!Never, ContactP!Never, Fol!nextFollowUp, ContactP!nextFollowUp, Fol!REMINDER_DAYS,
    ContactP!REMINDER_DAYS, Fol!Min, ContactP!Min, Fol!ClientWroteBefore,
    ContactP!ClientWroteBefore, Fol!ClientStops, ContactP!ClientStops, Fol!TurnIsRead,
    ContactP!TurnIsRead, Fol!Steps, ContactP!Steps, Fol!ReplyIsSent, ContactP!ReplyIsSent,
    Fol!Accepted, ContactP!Accepted, Fol!canFollowUp, ContactP!canFollowUp, Fol!OfficePauses,
    ContactP!OfficePauses, Fol!Scheduler, ContactP!Scheduler, Fol!DeadlineReached,
    ContactP!DeadlineReached, Fol!TickLooks, ContactP!TickLooks, Fol!Selected, ContactP!Selected,
    Fol!Decision, ContactP!Decision, Fol!Days, ContactP!Days, Fol!Due, ContactP!Due, Fol!InTheWay,
    ContactP!InTheWay, Fol!recentConversation, ContactP!recentConversation, Fol!Max, ContactP!Max,
    Fol!TickEnds, ContactP!TickEnds, Fol!Tick, ContactP!Tick, Fol!Seen, ContactP!Seen,
    Fol!TickConsumes, ContactP!TickConsumes, Fol!TickReminds, ContactP!TickReminds, Fol!Executor,
    ContactP!Executor, Fol!Send, ContactP!Send, Fol!Silenced, ContactP!Silenced, Fol!Changed,
    ContactP!Changed, Fol!Mine, ContactP!Mine, Fol!Set, ContactP!Set, Fol!Complete,
    ContactP!Complete, Fol!Check, ContactP!Check, Fol!Reconcile, ContactP!Reconcile, Fol!Lose,
    ContactP!Lose, Fol!DayPasses, ContactP!DayPasses, Fol!NextDays, ContactP!NextDays, Fol!vars,
    ContactP!vars

LEMMA SameIntake ==
  /\ Avi!Init <=> ContactP!Avi!Init
  /\ Avi!Next <=> ContactP!Avi!Next
  /\ [Avi!Next]_(Avi!vars) <=> [ContactP!Avi!Next]_(ContactP!Avi!vars)
  BY ZenonT(60) DEF Avi!Init, ContactP!Avi!Init, Avi!NoCase, ContactP!Avi!NoCase, Avi!Ambiguous,
    ContactP!Avi!Ambiguous, Avi!Asleep, ContactP!Avi!Asleep, Avi!Nobody, ContactP!Avi!Nobody,
    Avi!Next, ContactP!Avi!Next, Avi!Staff, ContactP!Avi!Staff, Avi!Settles, ContactP!Avi!Settles,
    Avi!Acts, ContactP!Avi!Acts, Avi!Damages, ContactP!Avi!Damages, Avi!Recards,
    ContactP!Avi!Recards, Avi!Cards, ContactP!Avi!Cards, Avi!Advances, ContactP!Avi!Advances,
    Avi!kmaleon, ContactP!Avi!kmaleon, Avi!Polls, ContactP!Avi!Polls, Avi!Wakes, ContactP!Avi!Wakes,
    Avi!Goes, ContactP!Avi!Goes, Avi!Only, ContactP!Avi!Only, Avi!Step, ContactP!Avi!Step,
    Avi!Works, ContactP!Avi!Works, Avi!List, ContactP!Avi!List, Avi!Ends, ContactP!Avi!Ends,
    Avi!Takes, ContactP!Avi!Takes, Avi!Skips, ContactP!Avi!Skips, Avi!Resolve, ContactP!Avi!Resolve,
    Avi!Fails, ContactP!Avi!Fails, Avi!Back, ContactP!Avi!Back, Avi!Recheck, ContactP!Avi!Recheck,
    Avi!StillWaits, ContactP!Avi!StillWaits, Avi!LinkKmaleon, ContactP!Avi!LinkKmaleon, Avi!Links,
    ContactP!Avi!Links, Avi!Taken, ContactP!Avi!Taken, Avi!Linked, ContactP!Avi!Linked, Avi!Opens,
    ContactP!Avi!Opens, Avi!Finishes, ContactP!Avi!Finishes, Avi!Stops, ContactP!Avi!Stops,
    Avi!LockIsLost, ContactP!Avi!LockIsLost, Avi!Search, ContactP!Avi!Search, Avi!Select,
    ContactP!Avi!Select, Avi!vars, ContactP!Avi!vars

LEMMA SameIndex ==
  /\ Ind!Init <=> ChannelP!Ind!Init
  /\ Ind!Next <=> ChannelP!Ind!Next
  /\ [Ind!Next]_(Ind!vars) <=> [ChannelP!Ind!Next]_(ChannelP!Ind!vars)
  BY ZenonT(60) DEF Ind!None, ChannelP!Ind!None, Ind!Torn, ChannelP!Ind!Torn, Ind!vars,
    ChannelP!Ind!vars, Ind!disk, ChannelP!Ind!disk, Ind!service, ChannelP!Ind!service, Ind!Resting,
    ChannelP!Ind!Resting, Ind!Unloaded, ChannelP!Ind!Unloaded, Ind!NoIndex, ChannelP!Ind!NoIndex,
    Ind!Init, ChannelP!Ind!Init, Ind!Starts, ChannelP!Ind!Starts, Ind!Embeds, ChannelP!Ind!Embeds,
    Ind!Writes, ChannelP!Ind!Writes, Ind!WritesMeta, ChannelP!Ind!WritesMeta, Ind!Fails,
    ChannelP!Ind!Fails, Ind!Rests, ChannelP!Ind!Rests, Ind!Reload, ChannelP!Ind!Reload, Ind!Keeps,
    ChannelP!Ind!Keeps, Ind!ReadMeta, ChannelP!Ind!ReadMeta, Ind!Usable, ChannelP!Ind!Usable,
    Ind!ReadVectors, ChannelP!Ind!ReadVectors, Ind!Examples, ChannelP!Ind!Examples, Ind!FiveMinutes,
    ChannelP!Ind!FiveMinutes, Ind!Restart, ChannelP!Ind!Restart, Ind!Script, ChannelP!Ind!Script,
    Ind!Service, ChannelP!Ind!Service, Ind!Next, ChannelP!Ind!Next

LEMMA SameModel ==
  /\ Mod!Init <=> ChannelP!Mod!Init
  /\ Mod!Next <=> ChannelP!Mod!Next
  /\ [Mod!Next]_(Mod!vars) <=> [ChannelP!Mod!Next]_(ChannelP!Mod!vars)
  BY ZenonT(60) DEF Mod!Pieces, ChannelP!Mod!Pieces, Mod!Objects, ChannelP!Mod!Objects, Mod!Null,
    ChannelP!Mod!Null, Mod!Garbage, ChannelP!Mod!Garbage, Mod!vars, ChannelP!Mod!vars, Mod!Stream,
    ChannelP!Mod!Stream, Mod!Starts, ChannelP!Mod!Starts, Mod!IsDelta, ChannelP!Mod!IsDelta,
    Mod!ProcessLines, ChannelP!Mod!ProcessLines, Mod!LastEnd, ChannelP!Mod!LastEnd, Mod!Remainder,
    ChannelP!Mod!Remainder, Mod!Parsed, ChannelP!Mod!Parsed, Mod!Init, ChannelP!Mod!Init,
    Mod!Retrieve, ChannelP!Mod!Retrieve, Mod!Complete, ChannelP!Mod!Complete, Mod!NoResponse,
    ChannelP!Mod!NoResponse, Mod!Responds, ChannelP!Mod!Responds, Mod!Body, ChannelP!Mod!Body,
    Mod!ReadChunk, ChannelP!Mod!ReadChunk, Mod!ReadStreamingContent,
    ChannelP!Mod!ReadStreamingContent, Mod!ReadCompletion, ChannelP!Mod!ReadCompletion,
    Mod!ConnectionLost, ChannelP!Mod!ConnectionLost, Mod!Armed, ChannelP!Mod!Armed, Mod!Abort,
    ChannelP!Mod!Abort, Mod!Provider, ChannelP!Mod!Provider, Mod!Next, ChannelP!Mod!Next

LEMMA SameScanIsWhole == Rec!ScanIsWhole <=> ChannelP!Rec!ScanIsWhole
<1>1. Rec!Got = ChannelP!Rec!Got /\ \A n : Rec!PageOf(n) = ChannelP!Rec!PageOf(n)
  BY DEF Rec!Got, ChannelP!Rec!Got, Rec!PageOf, ChannelP!Rec!PageOf, Rec!Min, ChannelP!Rec!Min
<1> QED
  BY <1>1 DEF Rec!ScanIsWhole, ChannelP!Rec!ScanIsWhole, Rec!Scanning, ChannelP!Rec!Scanning, Rec!Whole,
    ChannelP!Rec!Whole, Rec!Broken, ChannelP!Rec!Broken, Rec!Changed, ChannelP!Rec!Changed, Rec!Repeated,
    ChannelP!Rec!Repeated, Rec!ToSet, ChannelP!Rec!ToSet

LEMMA SameOpenedOnce == Avi!OpenedOnce <=> ContactP!Avi!OpenedOnce
  BY DEF Avi!OpenedOnce, ContactP!Avi!OpenedOnce

LEMMA SameBridgeSafe ==
  /\ Bri!ClearedIsGone <=> ChannelP!Emu!ClearedIsGone
  /\ Bri!ShownOnce <=> ChannelP!Emu!ShownOnce
  /\ Bri!MarkersAreTheBots <=> ChannelP!Emu!MarkersAreTheBots
  BY DEF Bri!ClearedIsGone, ChannelP!Emu!ClearedIsGone, Bri!ShownOnce, ChannelP!Emu!ShownOnce,
    Bri!MarkersAreTheBots, ChannelP!Emu!MarkersAreTheBots

LEMMA SamePieces ==
  /\ Ind!RankedByOwn <=> ChannelP!Ind!RankedByOwn
  /\ Mod!AnswerIsWhole <=> ChannelP!Mod!AnswerIsWhole
  BY DEF Ind!RankedByOwn, ChannelP!Ind!RankedByOwn, Mod!AnswerIsWhole, ChannelP!Mod!AnswerIsWhole,
    Mod!Null, ChannelP!Mod!Null, Mod!Objects, ChannelP!Mod!Objects

(* What the service is instantiated with is what the theorems ask for.      *)
LEMMA TheLimits == ChannelP!Limits
  BY DEF ChannelP!Limits

LEMMA TheAnswers == ChannelP!SaysOneThing
<1>1. ModData!Said = ChannelP!ModData!Said
  BY DEF ModData!Said, ChannelP!ModData!Said
<1> QED BY <1>1, ChannelP!TheAnswersOfTheRuns DEF ChannelP!SaysOneThing

(* Whichever part lives, it keeps its inductive invariant.                  *)
Kept ==
  /\ part = "stream" => ChannelP!StreamInv
  /\ part = "bridge" => ChannelP!BridgeInv
  /\ part = "record" => ChannelP!Rec!RecordInv
  /\ part = "followup" => ContactP!FollowInv
  /\ part = "avisos" => ContactP!Avi!IntakeInv
  /\ part = "index" => ChannelP!IndexInv
  /\ part = "model" => ChannelP!AnswerInv

LEMMA KeptInit == Init => Kept
<1>1. Str!Init => ChannelP!StreamInv
  BY ChannelP!StreamInit, SameStream
<1>2. Bri!Init => ChannelP!BridgeInv
  BY TheLimits, ChannelP!BridgeInit, SameBridge
<1>3. Rec!Init => ChannelP!Rec!RecordInv
  BY ChannelP!RecordInit, SameRecord
<1>4. Fol!Init => ContactP!FollowInv
  BY ContactP!FollowInit, SameFollow
<1>5. Avi!Init => ContactP!Avi!IntakeInv
  BY ContactP!IntakeInit, SameIntake
<1>6. Ind!Init => ChannelP!IndexInv
  BY ChannelP!IndexInit, SameIndex
<1>7. Mod!Init => ChannelP!AnswerInv
  BY ChannelP!AnswerInit, SameModel
<1>8. Init => /\ part = "stream" => Str!Init
              /\ part = "bridge" => Bri!Init
              /\ part = "record" => Rec!Init
              /\ part = "followup" => Fol!Init
              /\ part = "avisos" => Avi!Init
              /\ part = "index" => Ind!Init
              /\ part = "model" => Mod!Init
  BY DEF Init
<1> QED BY <1>1, <1>2, <1>3, <1>4, <1>5, <1>6, <1>7, <1>8 DEF Kept

(* A step of the service is a step of the part that lives.                  *)
LEMMA PartSteps ==
  ASSUME [Next]_service
  PROVE  /\ part = "stream" => [Str!Next]_(Str!vars)
         /\ part = "bridge" => [Bri!Next]_(Bri!vars)
         /\ part = "record" => [Rec!Next]_(Rec!vars)
         /\ part = "followup" => [Fol!Next]_(Fol!vars)
         /\ part = "avisos" => [Avi!Next]_(Avi!vars)
         /\ part = "index" => [Ind!Next]_(Ind!vars)
         /\ part = "model" => [Mod!Next]_(Mod!vars)
<1>1. part = "stream" => [Str!Next]_(Str!vars)
  BY DEF Next, service, Str!vars
<1>2. part = "bridge" => [Bri!Next]_(Bri!vars)
  BY DEF Next, service, Bri!vars
<1>3. part = "record" => [Rec!Next]_(Rec!vars)
  BY DEF Next, service, Rec!vars
<1>4. part = "followup" => [Fol!Next]_(Fol!vars)
  BY DEF Next, service, Fol!vars
<1>5. part = "avisos" => [Avi!Next]_(Avi!vars)
  BY DEF Next, service, Avi!vars
<1>6. part = "index" => [Ind!Next]_(Ind!vars)
  BY DEF Next, service, Ind!vars
<1>7. part = "model" => [Mod!Next]_(Mod!vars)
  BY DEF Next, service, Mod!vars
<1> QED BY <1>1, <1>2, <1>3, <1>4, <1>5, <1>6, <1>7

LEMMA KeptStep == Kept /\ [Next]_service => Kept'
<1> SUFFICES ASSUME Kept, [Next]_service PROVE Kept'
  OBVIOUS
<1>1. ChannelP!StreamInv /\ [Str!Next]_(Str!vars) => ChannelP!StreamInv'
  BY ChannelP!StreamStep, SameStream
<1>2. ChannelP!BridgeInv /\ [Bri!Next]_(Bri!vars) => ChannelP!BridgeInv'
  BY TheLimits, ChannelP!BridgeStep, SameBridge
<1>3. ChannelP!Rec!RecordInv /\ [Rec!Next]_(Rec!vars) => ChannelP!Rec!RecordInv'
  BY ChannelP!RecordStep, SameRecord
<1>4. ContactP!FollowInv /\ [Fol!Next]_(Fol!vars) => ContactP!FollowInv'
  BY ContactP!FollowStep, SameFollow
<1>5. ContactP!Avi!IntakeInv /\ [Avi!Next]_(Avi!vars) => ContactP!Avi!IntakeInv'
  BY ContactP!IntakeStep, SameIntake
<1>6. ChannelP!IndexInv /\ [Ind!Next]_(Ind!vars) => ChannelP!IndexInv'
  BY ChannelP!IndexStep, SameIndex
<1>7. ChannelP!AnswerInv /\ [Mod!Next]_(Mod!vars) => ChannelP!AnswerInv'
  BY TheAnswers, ChannelP!AnswerStep, SameModel
<1>8. part' = part
  BY DEF Next, service
<1> QED BY <1>1, <1>2, <1>3, <1>4, <1>5, <1>6, <1>7, <1>8, PartSteps DEF Kept

(* The stream of the service skips nothing and keeps the order. *)
THEOREM ServiceStream == Init /\ [][Next]_service => []StreamIsSafe
<1>1. ChannelP!StreamInv => Str!CursorIsCommitted /\ Str!InOrder
  BY DEF ChannelP!StreamInv, ChannelP!Unbroken, ChannelP!LandedUpTo, ChannelP!InOrder,
    ChannelP!Landed, ChannelP!Range, Str!CursorIsCommitted, Str!InOrder, Str!Landed, Str!Range
<1>2. Kept => StreamIsSafe
  BY <1>1 DEF Kept, StreamIsSafe
<1> QED BY KeptInit, KeptStep, <1>2, PTL

(* A demonstration that was reset is gone, nothing is shown twice, and no   *)
(* client writes the notes of the bot.                                      *)
THEOREM ServiceBridge == Init /\ [][Next]_service => []BridgeIsSafe
<1>1. ChannelP!BridgeInv =>
        ChannelP!Emu!ClearedIsGone /\ ChannelP!Emu!ShownOnce /\ ChannelP!Emu!MarkersAreTheBots
  BY ChannelP!BridgeEnough
<1>2. Kept => BridgeIsSafe
  BY <1>1, SameBridgeSafe DEF Kept, BridgeIsSafe
<1> QED BY KeptInit, KeptStep, <1>2, PTL

(* The record of the service is written once, read whole, and announced     *)
(* only with its document.                                                  *)
THEOREM ServiceRecord == Init /\ [][Next]_service => []RecordIsSafe
<1>1. ChannelP!Rec!RecordInv => Rec!WrittenOnce /\ Rec!NoticeHasDocument
  BY DEF ChannelP!Rec!RecordInv, ChannelP!Rec!WrittenOnce, ChannelP!Rec!NoticeHasDocument, ChannelP!Rec!Ours,
    Rec!WrittenOnce, Rec!NoticeHasDocument, Rec!Ours
<1>2. ChannelP!Rec!RecordInv => Rec!ScanIsWhole
  BY ChannelP!ReadWhole, SameScanIsWhole
<1>3. Kept => RecordIsSafe
  BY <1>1, <1>2 DEF Kept, RecordIsSafe
<1> QED BY KeptInit, KeptStep, <1>3, PTL

(* No client of the service is contacted too often: no burst of reminders,  *)
(* one first contact, and only for an aviso that waits.                     *)
THEOREM ServiceContacts == Init /\ [][Next]_service => []ContactsDoNotRepeat
<1>1. ContactP!FollowInv => Fol!NoBurst
  BY DEF ContactP!FollowInv, ContactP!NoBurst, Fol!NoBurst
<1>2. ContactP!Avi!IntakeInv => Avi!OpenedOnce /\ Avi!NoStaleContact
  BY ContactP!OpenedAtMostOnce, SameOpenedOnce DEF ContactP!Avi!IntakeInv,
    ContactP!Avi!NoStaleContact, Avi!NoStaleContact
<1>3. Kept => ContactsDoNotRepeat
  BY <1>1, <1>2 DEF Kept, ContactsDoNotRepeat
<1> QED BY KeptInit, KeptStep, <1>3, PTL

(* The pieces of an example or of an answer belong together: examples are   *)
(* ranked with the vectors of their own package, and half an answer of the  *)
(* model is never handed on as one.                                         *)
THEOREM ServicePieces == Init /\ [][Next]_service => []PiecesBelongTogether
<1>1. ChannelP!IndexInv => Ind!RankedByOwn
  BY ChannelP!IndexEnough, SamePieces
<1>2. ChannelP!AnswerInv => Mod!AnswerIsWhole
  BY SamePieces DEF ChannelP!AnswerInv
<1>3. Kept => PiecesBelongTogether
  BY <1>1, <1>2 DEF Kept, PiecesBelongTogether
<1> QED BY KeptInit, KeptStep, <1>3, PTL
==============================================================================
