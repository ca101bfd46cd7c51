----------------------------- MODULE ProfileCdp -----------------------------
(***************************************************************************)
(* One profile session over its browser's pipe: the native files are       *)
(* written, the browser is seeded by CDP commands, the client is bridged,  *)
(* a resumed connection gets a clean slate, and at the end the profile is  *)
(* captured (chrome/client.rs, profile/cdp.rs, profile_session in          *)
(* server/ws.rs, clean_slate in server/resume.rs).                         *)
(*                                                                         *)
(* The browser takes commands in the order of the pipe and answers each    *)
(* whenever it likes; events go between the answers. The commands that a   *)
(* stage still has to send are its plan. All waits of the code are waits   *)
(* for the next message of the pipe, which belongs to whoever reads it.    *)
(***************************************************************************)
EXTENDS ProfileData

CONSTANTS
    Payloads,       \* profiles handed off: [cookies, local, files, read_only] and
                    \* whether the session is resumable
    NewCookie, NewRow,      \* what a client's page adds
    CLEANUP_FIRST_ID,
    MaxPolls,       \* commands sent while the browser has no page
    MaxClient,      \* commands of the clients, and their largest id
    MaxResumes,     \* times a session is resumed
    MaxFaults       \* commands that the browser refuses, or one death

ASSUME CdpAssumption ==
    /\ {CLEANUP_FIRST_ID, MaxPolls, MaxClient, MaxResumes, MaxFaults} \subseteq Nat
    /\ CLEANUP_FIRST_ID > MaxClient + 1

\* Cookies and texts that Rust's types can hold.
ASSUME PayloadsAssumption ==
    /\ \A p \in Payloads :
          /\ p.cookies \subseteq CookieType
          /\ p.local \in Seq([origin : STRING \ {"blank", "none"}, entries : SUBSET EntryType])
    /\ NewRow.text \in Texts /\ NewRow.compression \in 0..2

\* A payload is what a capture makes: an origin's rows are in one entry, and
\* the files are those of the native stores.
ASSUME CapturedAssumption ==
    \A p \in Payloads :
        /\ \A i, j \in DOMAIN p.local : p.local[i].origin = p.local[j].origin => i = j
        /\ \A i \in DOMAIN p.files : p.files[i][1] \in NATIVE_STORES

VARIABLES
    payload, stage,
    plan,           \* commands that this stage has not completed; the first is next
    awaiting,       \* the id under which the first was sent, 0 before that
    next_id,        \* CdpClient
    sent,           \* commands in the pipe to the browser
    answers,        \* replies that the browser has not written yet
    inbox,          \* messages in the pipe from the browser
    browser,        \* the browser: see TypeOK
    files,          \* the user data directory's native stores
    captured,       \* what profile_session deposits, when it does
    resumes, faults, commands,      \* how much of the bounds is used
    mistaken,       \* stages that took a reply to a client's command for theirs
    staleLoad,      \* a navigation was ended by the load of another document
    changed         \* a client's command has changed the profile

vars == <<payload, stage, plan, awaiting, next_id, sent, answers, inbox, browser, files,
          captured, resumes, faults, commands, mistaken, staleLoad, changed>>
server == <<plan, awaiting, next_id>>
bounds == <<resumes, faults, commands>>
history == <<mistaken, staleLoad, changed>>

Documents == {"blank"} \cup UNION {{p.local[i].origin : i \in DOMAIN p.local} : p \in Payloads}
NoCapture == [deposit |-> FALSE, answered |-> FALSE, opened |-> FALSE, packed |-> FALSE,
              cookies |-> {}, local |-> {}, files |-> {}]

(* Every variable holds a value of its type, and a command is awaited only  *)
(* while there is one to complete.                                          *)
TypeOK ==
    /\ payload \in Payloads
    /\ stage \in {"launch", "seed", "bridged", "cleaning", "capture", "closing", "ended"}
    /\ awaiting \in Nat /\ next_id \in Nat
    /\ awaiting # 0 => plan # <<>> /\ awaiting < next_id
    /\ \A i \in DOMAIN sent : sent[i].owner \in {"server", "client"}
    /\ browser.doc \in Documents /\ browser.loading \in Documents \cup {"none"}
    /\ {browser.alive, browser.page, browser.held, browser.fetch, browser.events,
        captured.deposit, captured.answered, captured.opened, captured.packed,
        staleLoad, changed} \subseteq BOOLEAN
    /\ mistaken \subseteq {"seed", "cleaning", "capture"}
    /\ resumes \in 0..MaxResumes /\ faults \in 0..MaxFaults /\ commands \in 0..MaxClient

-----------------------------------------------------------------------------
(* Plans. *)

Command(m, arg) == [m |-> m, arg |-> arg]
With(id, owner, c) == [id |-> id, owner |-> owner, m |-> c.m, arg |-> c.arg]
Origin(i) == payload.local[i]

apply_cookies ==
    LET params == sanitize(payload.cookies).params
    IN  IF params = {} THEN <<>> ELSE <<Command("setCookies", params)>>

attach_page_target == <<Command("getTargets", "page"), Command("attachToTarget", "page")>>

enable_interception == <<Command("Page.enable", "none"), Command("Fetch.enable", "none")>>
disable_interception == <<Command("Fetch.disable", "none"), Command("navigate", "blank")>>

\* apply_local_storage: for each origin a document of it, and the script there.
apply_local_storage ==
    LET n == Len(payload.local)
        visits == [k \in 1..(2 * n) |->
                      IF k % 2 = 1 THEN Command("navigate", Origin((k + 1) \div 2).origin)
                      ELSE Command("evaluate", Origin(k \div 2).entries)]
    IN  IF n = 0 THEN <<>> ELSE enable_interception \o visits \o disable_interception

seed_profile == apply_cookies \o attach_page_target \o apply_local_storage

\* clean_slate, with one attached target to detach from when there is a page.
clean_slate ==
    <<Command("getTargets", "attached"), Command("setAutoAttach", "none"),
      Command("setDiscoverTargets", "none")>>

\* profile_session, after the bridge: capture_cookies, then Browser.close.
capture == <<Command("getCookies", "none"), Command("close", "none")>>

\* CdpClient::new, with_first_id.
Begin(st, commandsOf, first) ==
    /\ stage' = st /\ plan' = commandsOf /\ next_id' = first /\ awaiting' = 0

Init ==
    /\ payload \in Payloads
    /\ stage = "launch" /\ plan = <<>> /\ awaiting = 0 /\ next_id = 1
    /\ sent = <<>> /\ answers = {} /\ inbox = <<>>
    /\ \E page \in BOOLEAN, busy \in BOOLEAN :
          browser = [alive |-> TRUE, page |-> page, doc |-> "blank", events |-> FALSE,
                     loading |-> IF page /\ busy THEN "blank" ELSE "none",
                     held |-> FALSE, fetch |-> FALSE, cookies |-> {}, rows |-> {},
                     disk |-> {}]
    /\ files = {} /\ captured = NoCapture
    /\ resumes = 0 /\ faults = 0 /\ commands = 0
    /\ mistaken = {} /\ staleLoad = FALSE /\ changed = FALSE

\* create_seeded: the files go in before the browser starts; a file that
\* cannot be written refuses the session.
create_seeded ==
    /\ stage = "launch"
    /\ LET e == extract_into(payload.files, files) IN
          IF e.ok THEN files' = e.tree /\ Begin("seed", seed_profile, 1)
          ELSE files' = {} /\ Begin("ended", <<>>, 1)
    /\ UNCHANGED <<payload, sent, answers, inbox, browser, captured, bounds, history>>

-----------------------------------------------------------------------------
(* CdpClient: send, and the two ways to wait. *)

send ==
    /\ plan # <<>> /\ awaiting = 0 /\ browser.alive
    /\ sent' = Append(sent, With(next_id, "server", Head(plan)))
    /\ next_id' = next_id + 1
    /\ IF Head(plan).m = "close"
       THEN plan' = <<>> /\ stage' = "closing" /\ UNCHANGED awaiting
       ELSE awaiting' = next_id /\ UNCHANGED <<plan, stage>>
    /\ UNCHANGED <<payload, answers, inbox, browser, files, captured, bounds, history>>

\* The stage goes on with these commands; without any it is over.
Continue(rest) ==
    /\ awaiting' = 0 /\ plan' = rest
    /\ stage' = IF rest = <<>> THEN "bridged" ELSE stage

\* The current call returned this reply's result.
Returned(reply) ==
    LET m == Head(plan).m
        targets == reply.m = "getTargets" /\ reply.data     \* another's reply has none
    IN
    /\ CASE m = "getTargets" /\ Head(plan).arg = "page" ->
                \* first_page_target polls until there is a page or its two
                \* seconds are over, then open_blank_page.
                \/ targets /\ Continue(Tail(plan))
                \/ ~targets /\ next_id <= MaxPolls + 1 /\ Continue(plan)
                \/ ~targets /\ Continue(<<Command("createTarget", "none")>> \o Tail(plan))
         [] m = "getTargets" /\ Head(plan).arg = "attached" ->
                Continue((IF targets THEN <<Command("detachFromTarget", "none")>> ELSE <<>>)
                             \o Tail(plan))
         [] OTHER -> Continue(Tail(plan))
    /\ captured' = IF stage # "capture" THEN captured
                   ELSE [captured EXCEPT !.answered = TRUE,
                            !.cookies = IF reply.m = "getCookies" THEN reply.data ELSE {}]

\* The current call failed, by a CDP error, the pipe's end, or a timeout.
\* Seeding refuses the session; cleaning goes on, without the targets if they
\* are what it asked for; a capture goes on with no cookies.
Failed ==
    /\ UNCHANGED captured
    /\ IF stage = "seed" THEN stage' = "ended" /\ plan' = <<>> /\ awaiting' = 0
       ELSE Continue(Tail(plan))

\* call_on's loop: anything but the reply of this id is skipped.
call_on(msg) ==
    /\ UNCHANGED <<next_id, sent>>
    /\ IF msg.id # awaiting
       THEN UNCHANGED <<stage, plan, awaiting, captured, mistaken>>
       ELSE /\ IF msg.ok THEN Returned(msg) ELSE Failed
            /\ mistaken' = IF msg.owner = "client" THEN mistaken \cup {stage} ELSE mistaken

\* navigate_stub's loop: every paused request is fulfilled, and the first
\* report of a load ends it; replies, refusals too, are skipped.
navigate_stub(msg) ==
    /\ UNCHANGED <<captured, mistaken>>
    /\ staleLoad' = (staleLoad \/ (msg.m = "loadEventFired" /\ msg.data # Head(plan).arg))
    /\ CASE msg.m = "requestPaused" ->
                /\ sent' = Append(sent, With(next_id, "server", Command("fulfillRequest", "none")))
                /\ next_id' = next_id + 1 /\ UNCHANGED <<stage, plan, awaiting>>
         [] msg.m = "loadEventFired" -> Continue(Tail(plan)) /\ UNCHANGED <<next_id, sent>>
         [] OTHER -> UNCHANGED <<stage, plan, awaiting, next_id, sent>>

recv ==
    /\ awaiting # 0 /\ inbox # <<>>
    /\ inbox' = Tail(inbox)
    /\ IF Head(plan).m = "navigate" THEN navigate_stub(Head(inbox))
       ELSE call_on(Head(inbox)) /\ UNCHANGED staleLoad
    /\ UNCHANGED <<payload, answers, browser, files, bounds, changed>>

\* The pipe is closed: recv at its end, or send, returns an error; of the
\* Browser.close it is ignored.
PipeClosed ==
    /\ ~browser.alive /\ plan # <<>>
    /\ awaiting # 0 => inbox = <<>>
    /\ IF Head(plan).m = "close" THEN Begin("closing", <<>>, next_id) /\ UNCHANGED captured
       ELSE Failed /\ UNCHANGED next_id
    /\ UNCHANGED <<payload, sent, answers, inbox, browser, files, bounds, history>>

\* Mutant: only the list of targets is waited for with a timeout.
TargetsTimeout ==
    /\ stage = "cleaning" /\ awaiting # 0 /\ Head(plan).m = "getTargets" /\ Failed
    /\ UNCHANGED <<payload, next_id, sent, answers, inbox, browser, files, bounds, history>>

\* CLEANUP_CALL_TIMEOUT: the call is dropped; its reply may still come.
CleanupTimeout ==
    /\ stage = "cleaning" /\ awaiting # 0 /\ Failed
    /\ UNCHANGED <<payload, next_id, sent, answers, inbox, browser, files, bounds, history>>

-----------------------------------------------------------------------------
(* The browser. External: what the code relies on of Chrome.                *)

Event(m, doc) == [id |-> 0, owner |-> "browser", m |-> m, ok |-> TRUE, data |-> doc]

\* A session that has ended has killed its browser.
Works == browser.alive /\ stage # "ended"

\* What a command changes.
Effect(c) ==
    CASE c.m = "setCookies" ->
            [browser EXCEPT !.cookies = @ \cup {ChromeCookie(p) : p \in c.arg}]
      [] c.m = "createTarget" -> [browser EXCEPT !.page = TRUE, !.loading = "blank"]
      [] c.m = "Page.enable" -> [browser EXCEPT !.events = TRUE]
      [] c.m = "Fetch.enable" -> [browser EXCEPT !.fetch = TRUE]
      [] c.m = "Fetch.disable" -> [browser EXCEPT !.fetch = FALSE, !.held = FALSE]
      [] c.m = "navigate" -> [browser EXCEPT !.loading = c.arg,
                                             !.held = browser.fetch /\ c.arg # "blank"]
      [] c.m = "fulfillRequest" -> [browser EXCEPT !.held = FALSE]
      [] c.m = "evaluate" ->
            [browser EXCEPT !.rows = restore_script(@, browser.doc, c.arg)]
      [] c.m = "change" -> [browser EXCEPT !.cookies = @ \cup {NewCookie},
                                           !.rows = @ \cup {NewRow}]
      [] c.m = "close" -> [browser EXCEPT !.disk = browser.rows, !.alive = FALSE]
      [] OTHER -> browser

Refused(c) == CASE c.m = "setCookies" -> \E p \in c.arg : ~ChromeAccepts(p)
                [] c.m = "attachToTarget" -> ~browser.page
                [] OTHER -> FALSE

Data(c) == CASE c.m = "getCookies" -> browser.cookies
             [] c.m = "getTargets" -> browser.page
             [] OTHER -> FALSE

\* The next command takes effect, or is refused; its reply is on its way.
Dispatch ==
    /\ Works /\ sent # <<>>
    /\ LET c == Head(sent)
           Reply(ok) == [id |-> c.id, owner |-> c.owner, m |-> c.m, ok |-> ok, data |-> Data(c)]
       IN  \/ /\ ~Refused(c) /\ browser' = Effect(c) /\ UNCHANGED faults
              /\ answers' = answers \cup {Reply(TRUE)}
              /\ changed' = (changed \/ c.m = "change")
              /\ inbox' = IF browser'.held /\ ~browser.held
                          THEN Append(inbox, Event("requestPaused", c.arg)) ELSE inbox
           \/ /\ Refused(c) \/ (c.owner = "server" /\ c.m # "close" /\ faults < MaxFaults)
              /\ faults' = IF Refused(c) THEN faults ELSE faults + 1
              /\ answers' = answers \cup {Reply(FALSE)}
              /\ UNCHANGED <<browser, changed, inbox>>
    /\ sent' = Tail(sent)
    /\ UNCHANGED <<payload, stage, server, files, captured, resumes, commands, mistaken,
                   staleLoad>>

Answer ==
    /\ Works
    /\ \E a \in answers : answers' = answers \ {a} /\ inbox' = Append(inbox, a)
    /\ UNCHANGED <<payload, stage, server, sent, browser, files, captured, bounds, history>>

\* A document has loaded, and the page says so once it was asked to. Chrome
\* has answered the navigation by then.
LoadFires ==
    /\ Works /\ browser.loading # "none" /\ ~browser.held
    /\ \A a \in answers : a.m \notin {"navigate", "fulfillRequest"}
    /\ browser' = [browser EXCEPT !.doc = browser.loading, !.loading = "none"]
    /\ inbox' = IF browser.events THEN Append(inbox, Event("loadEventFired", browser.loading)) ELSE inbox
    /\ UNCHANGED <<payload, stage, server, sent, answers, files, captured, bounds, history>>

\* The browser opens its first page; it writes localStorage out, in batches;
\* it dies.
BrowserActs ==
    /\ Works
    /\ \/ /\ stage = "seed" /\ ~browser.page
          /\ browser' = [browser EXCEPT !.page = TRUE, !.loading = "blank"]
          /\ UNCHANGED faults
       \/ /\ stage = "bridged" /\ browser.disk # browser.rows
          /\ browser' = [browser EXCEPT !.disk = browser.rows]
          /\ UNCHANGED faults
       \/ /\ faults < MaxFaults /\ faults' = faults + 1
          /\ browser' = [browser EXCEPT !.alive = FALSE]
    /\ UNCHANGED <<payload, stage, server, sent, answers, inbox, files, captured, resumes,
                   commands, history>>

-----------------------------------------------------------------------------
(* The client, bridged. It numbers its commands as it likes. *)

ClientSends ==
    /\ stage = "bridged" /\ commands < MaxClient
    /\ commands' = commands + 1
    /\ \E id \in 1..MaxClient, m \in {"getCookies", "change"} :
          sent' = Append(sent, With(id, "client", Command(m, "none")))
    /\ UNCHANGED <<payload, stage, server, answers, inbox, browser, files, captured, resumes,
                   faults, history>>

Forward ==
    /\ stage = "bridged" /\ inbox # <<>> /\ inbox' = Tail(inbox)
    /\ UNCHANGED <<payload, stage, server, sent, answers, browser, files, captured, bounds,
                   history>>

\* Mutant: the clean slate numbers its commands from 1, as a client does.
serve_profile_from_one ==
    /\ stage = "bridged" /\ browser.alive /\ payload.resumable /\ resumes < MaxResumes
    /\ resumes' = resumes + 1 /\ Begin("cleaning", clean_slate, 1)
    /\ UNCHANGED <<payload, sent, answers, inbox, browser, files, captured, faults, commands,
                   history>>

\* The connection breaks and the session is resumed, or it ends: with the
\* pipe, which is captured unless the profile is read-only, or without.
serve_profile ==
    /\ stage = "bridged"
    /\ \/ /\ browser.alive /\ payload.resumable /\ resumes < MaxResumes
          /\ resumes' = resumes + 1 /\ UNCHANGED commands
          /\ Begin("cleaning", clean_slate, CLEANUP_FIRST_ID)
       \/ /\ browser.alive /\ ~payload.read_only /\ UNCHANGED <<resumes, commands>>
          /\ Begin("capture", capture, 1)
       \/ UNCHANGED <<resumes, commands>> /\ Begin("ended", <<>>, next_id)
    /\ UNCHANGED <<payload, sent, answers, inbox, browser, files, captured, faults, history>>

\* The pipe is read to its end, for three seconds at most; the browser is
\* killed; destroy_capturing_native reads the disk, of which what fails is
\* left empty (unwrap_or_default); deposit_result.
destroy_capturing_native ==
    /\ stage = "closing" /\ stage' = "ended"
    /\ browser' = [browser EXCEPT !.alive = FALSE]
    /\ \E opened \in BOOLEAN, packed \in BOOLEAN :
          captured' = [captured EXCEPT !.deposit = TRUE, !.opened = opened, !.packed = packed,
                          !.local = read_profile_local_storage(browser.disk, opened),
                          !.files = pack_native(files, packed)]
    /\ UNCHANGED <<payload, server, sent, answers, inbox, files, bounds, history>>

-----------------------------------------------------------------------------
Next ==
    \/ create_seeded \/ send \/ recv \/ PipeClosed \/ CleanupTimeout
    \/ Dispatch \/ Answer \/ LoadFires \/ BrowserActs
    \/ ClientSends \/ Forward \/ serve_profile \/ destroy_capturing_native

Spec == Init /\ [][Next]_vars

\* The task is polled and timers fire. A bridge over a pipe that is closed
\* ends. Nothing is assumed of the browser or of the client.
FairSpec ==
    /\ Spec
    /\ WF_vars(create_seeded \/ send \/ recv \/ PipeClosed \/ CleanupTimeout
                   \/ destroy_capturing_native \/ (~browser.alive /\ serve_profile))

-----------------------------------------------------------------------------
(* What a profile session promises. *)

Restorable == {c \in payload.cookies : DropReason(c) = "retained"}
Readable(rows) == {[origin |-> r.origin, name |-> r.name, text |-> r.text] :
                      r \in {q \in rows : ~q.third /\ q.text # "surrogate"}}
LocalOf(p) == UNION {{[origin |-> p.local[i].origin, name |-> e.name, text |-> e.text] :
                         e \in p.local[i].entries} : i \in DOMAIN p.local}

(* seed_profile: the browser that a client is bridged to has the cookies of *)
(* the profile, each with every attribute ("must survive the round trip"),  *)
(* and each origin's localStorage in that origin, whatever replies and      *)
(* events came in between; except where a navigation ended with the load of *)
(* another document, as the browser's own first page.                       *)
SeededWhole ==
    stage = "bridged" /\ ~changed /\ ~staleLoad =>
        browser.cookies = Restorable /\ Readable(browser.rows) = LocalOf(payload)

(* sanitize: "One malformed cookie never aborts the batch": no cookie of a  *)
(* profile makes the browser refuse the command that sets them.             *)
BatchAccepted == \A i \in DOMAIN sent : sent[i].m = "setCookies" => ~Refused(sent[i])

(* What is deposited is the profile as the browser has it at the end, with  *)
(* the newest localStorage if the browser closed in time, and the profile   *)
(* that was handed off if no client changed it; each part except where its  *)
(* own reading failed (capture_cookies, the store, the packing, all three   *)
(* unwrap_or_default), the cookies also where another reply was taken for   *)
(* theirs.                                                                  *)
CaptureWhole ==
    captured.deposit =>
        /\ captured.answered /\ "capture" \notin mistaken =>
              /\ captured.cookies = browser.cookies
              /\ ~changed => captured.cookies = Restorable
        /\ captured.opened /\ browser.disk = browser.rows =>
              /\ captured.local = Readable(browser.rows)
              /\ ~changed /\ ~staleLoad => captured.local = LocalOf(payload)
        /\ captured.packed => captured.files = {payload.files[i] : i \in DOMAIN payload.files}

(* with_first_id: "a late reply to that client's commands is never mistaken *)
(* for one of ours", nor is one during seeding, and a command is awaited    *)
(* only while there is one to complete.                                     *)
OwnReplies ==
    /\ TypeOK
    /\ mistaken \cap {"seed", "cleaning"} = {}

(* The cleaning and the closing have timeouts, so they end whatever the     *)
(* browser does; and when the browser is gone the session ends, whichever   *)
(* reply it was waiting for.                                                *)
SessionEnds ==
    /\ stage \in {"cleaning", "closing"} ~> stage \in {"bridged", "ended"}
    /\ ~browser.alive ~> stage = "ended"

(* client.rs: inject and capture run "in the exclusive window after Chrome  *)
(* is ready and before the session pipe is handed to the bridge, so no      *)
(* client traffic is interleaved".                                          *)
ExclusiveWindow == "capture" \notin mistaken
=============================================================================
