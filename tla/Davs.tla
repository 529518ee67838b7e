-------------------------------- MODULE Davs --------------------------------
(***************************************************************************)
(* The registration with Amazon that models are downloaded under (davs.c): *)
(* one worker thread, one command waiting for it, the tokens in a file.    *)
(* A request to Amazon is a phase of the worker; its answer is an action,  *)
(* and other threads run between the two.  Amazon, the account's owner and *)
(* the clock are external.  What a download does on disk is in Models.     *)
(***************************************************************************)
EXTENDS Naturals

CONSTANTS MaxRegs,       \* bound: registrations Amazon ever makes
          MaxAsks,       \* bound: commands of the page
          MaxFaults,     \* bound: requests and file writes that fail, tokens that lapse, restarts
          Nothing

ASSUME DavsAssumption == {MaxRegs, MaxAsks, MaxFaults} \subseteq Nat /\ Nothing \notin Nat

VARIABLES davs,          \* state, cmd, refresh_token, access_until, refused
          at,            \* where the worker is
          kept,          \* state/davs: the refresh token and the refusal in the file
          amazon,        \* the registration it holds, whether it takes the access token, registrations made
          asked,         \* commands whose check of state passed, not queued yet
          asks, faults

dvars == <<davs, at, kept, amazon, asked, asks, faults>>

Cmds == {"login", "cancel", "logout", "fetch"}
DInit == /\ davs = [state |-> "none", cmd |-> Nothing, refresh |-> Nothing, until |-> "past", refused |-> FALSE]
         /\ at = "idle" /\ kept = [refresh |-> Nothing, refused |-> FALSE]
         /\ amazon = [reg |-> Nothing, access |-> FALSE, made |-> 0]
         /\ asked = {} /\ asks = 0 /\ faults = 0

Registered == IF davs.refresh = Nothing THEN "none" ELSE "on"     \* an older registration survives a failed try
Go(d, where) == davs' = d /\ at' = where /\ UNCHANGED <<asked, asks>>
Fault == faults < MaxFaults /\ faults' = faults + 1
request_failed == Fault                            \* no answer from Amazon, or an error of its own
Fine == UNCHANGED faults
\* A write or an unlink that fails leaves the file; the caller goes on.
tokens_file(k) == (Fine /\ kept' = k) \/ (Fault /\ UNCHANGED kept)
tokens_save(d) == tokens_file([refresh |-> d.refresh, refused |-> d.refused])
tokens_load(until) == [state |-> IF kept.refresh = Nothing THEN "none" ELSE "on", cmd |-> Nothing,
                       refresh |-> kept.refresh, until |-> until, refused |-> kept.refused]

----------------------------------------------------------------------------
\* The page's threads: the state is checked under lk, the command queued
\* under lk again, and anything may happen between the two.
may == [login |-> davs.state # "busy", cancel |-> davs.state = "waiting",
        logout |-> davs.state = "on", fetch |-> davs.state = "on"]
ask(c) == /\ asks < MaxAsks /\ asks' = asks + 1 /\ may[c] /\ asked' = asked \union {c}
          /\ UNCHANGED <<davs, at, kept, amazon, faults>>
command(c) ==
  /\ c \in asked /\ asked' = asked \ {c}
  /\ davs' = IF davs.cmd # Nothing THEN davs
             ELSE [davs EXCEPT !.cmd = c, !.state = CASE c = "login" -> "waiting"
                                                      [] c = "fetch" -> "busy"
                                                      [] OTHER -> @]
  /\ UNCHANGED <<at, kept, amazon, asks, faults>>

\* worker: takes the command.  gen differs from the login's own number just
\* when a command was queued since, and then it still waits in cmd.
Phase(c) == CASE c = "login" -> "codepair"
              [] c = "logout" -> IF davs.until = "past" THEN "refresh_out" ELSE "deregister"
              [] c = "fetch" -> IF davs.until = "past" THEN "refresh_fetch" ELSE "ask"
              [] OTHER -> "idle"
worker ==
  /\ at = "idle" /\ davs.cmd # Nothing
  /\ LET d == [davs EXCEPT !.cmd = Nothing] IN
     Go(CASE davs.cmd = "cancel" /\ davs.state = "waiting" -> [d EXCEPT !.state = Registered]
          [] davs.cmd = "fetch" -> [d EXCEPT !.state = "busy"]
          [] OTHER -> d, Phase(davs.cmd))
  /\ UNCHANGED <<kept, amazon, faults>>

----------------------------------------------------------------------------
\* login_run: a code pair, then a register request every few seconds.
Give_up == Go([davs EXCEPT !.state = Registered], "idle") /\ UNCHANGED <<kept, amazon>>
codepair == /\ at = "codepair"
            /\ \/ Fine /\ Go([davs EXCEPT !.state = "waiting"], "wait") /\ UNCHANGED <<kept, amazon>>
               \/ request_failed /\ Give_up
login_aborted == at = "wait" /\ davs.cmd # Nothing /\ Fine /\ Go(davs, "idle") /\ UNCHANGED <<kept, amazon>>
login_late == at = "wait" /\ Fine /\ Give_up                       \* not entered in time, or no signature
register_call == at = "wait" /\ davs.cmd = Nothing /\ Fine /\ Go(davs, "register") /\ UNCHANGED <<kept, amazon>>
NewReg == /\ amazon.made < MaxRegs
          /\ amazon' = [reg |-> amazon.made + 1, access |-> TRUE, made |-> amazon.made + 1]
not_entered == at = "register" /\ Fine /\ Go(davs, "wait") /\ UNCHANGED <<kept, amazon>>
registered ==
  /\ at = "register" /\ NewReg
  /\ Go([davs EXCEPT !.state = "on", !.refresh = amazon'.reg, !.until = "future"], "idle")
  /\ tokens_save(davs')
\* the request did not get through, or its answer did not come back
register_failed == /\ at = "register" /\ request_failed /\ (UNCHANGED amazon \/ NewReg)
                   /\ Go([davs EXCEPT !.state = Registered], "idle") /\ UNCHANGED kept

----------------------------------------------------------------------------
\* token_refresh: 0, not reached, or refused.
Live == davs.refresh # Nothing /\ amazon.reg = davs.refresh
token_refresh(phase, then) ==
  /\ at = phase /\ Live /\ amazon' = [amazon EXCEPT !.access = TRUE]
  /\ Go([davs EXCEPT !.until = "future"], then) /\ tokens_save(davs)
tokens_clear == /\ Go([davs EXCEPT !.state = "none", !.refresh = Nothing, !.until = "past"], "idle")
                /\ tokens_file([refresh |-> Nothing, refused |-> FALSE])                \* unlinked

\* logout_run: "fresh" is the phase after a refresh.
refresh_out == token_refresh("refresh_out", "deregister_fresh")
\* Fault: a logout that does not reach Amazon forgets the tokens.
refresh_out_forgets == at = "refresh_out" /\ request_failed /\ tokens_clear /\ UNCHANGED amazon

refresh_out_failed == at = "refresh_out" /\ request_failed /\ Go(davs, "idle") /\ UNCHANGED <<kept, amazon>>
refresh_out_refused == at = "refresh_out" /\ ~Live /\ tokens_clear /\ UNCHANGED amazon
Deregistering == at \in {"deregister", "deregister_fresh"}
deregistered == /\ Deregistering /\ Live /\ amazon.access
                /\ amazon' = [amazon EXCEPT !.reg = Nothing, !.access = FALSE] /\ tokens_clear
\* 400, 404, or 401 with a token just refreshed: gone is gone
deregister_gone == Deregistering /\ ~Live /\ tokens_clear /\ UNCHANGED amazon
\* 401 for an access token that lapsed early: refresh, once
deregister_401 == /\ at = "deregister" /\ ~(Live /\ amazon.access) /\ Fine
                  /\ Go([davs EXCEPT !.until = "past"], "refresh_out") /\ UNCHANGED <<kept, amazon>>
deregister_failed == /\ Deregistering /\ request_failed                             \* not reached, or Amazon's own error
                     /\ \/ UNCHANGED amazon
                        \/ Live /\ amazon.access /\ amazon' = [amazon EXCEPT !.reg = Nothing, !.access = FALSE]
                     /\ Go(davs, "idle") /\ UNCHANGED kept

----------------------------------------------------------------------------
\* fetch_run: the artifact's address, the archive, the staged copy.
Fetch_fails == Go([davs EXCEPT !.state = "on"], "idle") /\ UNCHANGED <<kept, amazon>>
Fetch_ends(refused) == /\ Go([davs EXCEPT !.state = "on", !.refused = refused], "idle") /\ UNCHANGED amazon
                       /\ IF refused = davs.refused THEN UNCHANGED <<kept, faults>> ELSE tokens_save(davs')
refresh_fetch == token_refresh("refresh_fetch", "ask")
refresh_fetch_failed == at = "refresh_fetch" /\ (request_failed \/ (~Live /\ Fine)) /\ Fetch_fails
fetch_asked == /\ at = "ask" /\ Live /\ amazon.access
               /\ \/ Fine /\ Go(davs, "download") /\ UNCHANGED <<kept, amazon>>
                  \/ Fine /\ Fetch_fails                                   \* 404, Amazon has none
                  \/ Fetch_ends(TRUE)                                      \* 403, not allowlisted
fetch_refused == at = "ask" /\ ~(Live /\ amazon.access) /\ Fine /\ Fetch_fails
download == at = "download" /\ Fetch_ends(FALSE)                           \* arrived whole, staged
fetch_failed == at \in {"ask", "download"} /\ request_failed /\ Fetch_fails

----------------------------------------------------------------------------
\* davs_start after a restart of hassmic.  An access_until of 0 was not saved,
\* the one in the file may be of before a save that failed, and the clock may
\* still be off.
davs_start == /\ Fault /\ at' = "idle" /\ asked' = {}
              /\ \E until \in {"past", "future"} : davs' = tokens_load(until)
              /\ UNCHANGED <<kept, amazon, asks>>
\* External: an hour passes; Amazon stops taking the access token earlier
\* than it said; the owner removes the Echo in the Alexa app.
HourPasses == /\ Fault /\ davs.until = "future" /\ davs' = [davs EXCEPT !.until = "past"]
              /\ amazon' = [amazon EXCEPT !.access = FALSE] /\ UNCHANGED <<at, kept, asked, asks>>
Lapses == Fault /\ amazon.access /\ amazon' = [amazon EXCEPT !.access = FALSE] /\ UNCHANGED <<davs, at, kept, asked, asks>>
Removed == /\ Fault /\ amazon.reg # Nothing /\ amazon' = [amazon EXCEPT !.reg = Nothing, !.access = FALSE]
           /\ UNCHANGED <<davs, at, kept, asked, asks>>

Login == codepair \/ login_aborted \/ login_late \/ register_call \/ not_entered \/ registered \/ register_failed
Logout == \/ refresh_out \/ refresh_out_failed \/ refresh_out_refused
          \/ deregistered \/ deregister_gone \/ deregister_401 \/ deregister_failed
Fetch == refresh_fetch \/ refresh_fetch_failed \/ fetch_asked \/ fetch_refused \/ download \/ fetch_failed
DNext == \/ \E c \in Cmds : ask(c) \/ command(c)
         \/ worker \/ Login \/ Logout \/ Fetch
         \/ davs_start \/ HourPasses \/ Lapses \/ Removed

DSpec == DInit /\ [][DNext]_dvars

----------------------------------------------------------------------------
\* logout_run forgets the refresh token, and login_run replaces it, only once
\* Amazon no longer holds the registration it belongs to: forgotten earlier,
\* the Echo would stay on the account with nothing here able to remove it.
\* Memory and file alike, through lapsed tokens, lost answers, writes that fail
\* and restarts.  One way is left: tokens_save only logs a failed write, and a
\* restart before the next save that succeeds has the file's older tokens.
KeepsLiveTokens ==
  /\ davs.refresh # Nothing /\ davs'.refresh # davs.refresh =>
       amazon'.reg # davs.refresh \/ (davs_start /\ kept.refresh # davs.refresh)
  /\ kept.refresh # Nothing /\ kept'.refresh # kept.refresh => amazon'.reg # kept.refresh

\* No step of a behaviour forgets a token that still works (KeepsLiveTokens).
LiveTokensKept == [][KeepsLiveTokens]_dvars
=============================================================================
