----------------------------- MODULE ReleaseNpm -----------------------------
(* The npm side of the release pipeline (.github/scripts/release-pipeline/npm.ts):
   pre-releases of main commits under the dist-tag next, releases under latest.
   The registry has no compare-and-set and shows a publish some time after it
   took it, so publishers share a lane and judge what to publish by its record. *)
EXTENDS ReleaseMain

CONSTANTS
  ConfirmReads   \* CONFIRM_READS, how often next's publisher looks for its version

ASSUME NpmBounds == ConfirmReads \in Nat \ {0}

VARIABLES
  record,    \* what a read of the registry shows
  accepted,  \* publishes it took and does not show yet, in their order
  lane,      \* the npm-publish concurrency group: its holder, none is 0
  pub,       \* the publishing jobs
  mishaps    \* deaths and lost answers the publishers still meet

npmVars == <<record, accepted, lane, pub, mishaps>>

(* A version is named by its channel and its main commit: a pre-release sorts by
   its commit's position, a release by its merge's (prereleaseVersion).     *)
Version == [channel : {"next", "stable"}, source : Nat]
Publishing(p) == [channel |-> pub[p].channel, source |-> pub[p].source]

Enqueued(j) == [channel |-> j.channel, source |-> j.source, pc |-> "queued", reads |-> 0,
                checkout |-> 0, unread |-> {}, said |-> {}]
NpmInit(jobs, budget) ==
  /\ record = [versions |-> {}, next |-> {}, latest |-> {}]
  /\ accepted = <<>> /\ lane = 0 /\ mishaps = budget
  /\ pub = [p \in DOMAIN jobs |-> Enqueued(jobs[p])]

Holds(p, pc) == lane = p /\ pub[p].pc = pc
Turn(p, new) == pub' = [pub EXCEPT ![p] = new] /\ UNCHANGED lane
Leave(p, word) == lane' = 0 /\ pub' = [pub EXCEPT ![p].pc = "over", ![p].said = @ \cup {word}]

Unread == {accepted[i] : i \in DOMAIN accepted}

-----------------------------------------------------------------------------
(* The verdicts. *)

(* The sources a record names that this run's checkout can place: a commit
   merged after the checkout is no commit in it.                           *)
Placed(p) == {v \in record.versions \cup record.next : v.channel = "next" /\ v.source <= pub[p].checkout}
Descendants(p) == {v \in Placed(p) : ~IsAncestor(v.source, pub[p].source)}

(* nextPublishVerdict: not a version already there, and nothing once a
   descendant's pre-release is.                                            *)
NotThere(p) == Publishing(p) \notin record.versions \cup record.next
NextMayGo(p) ==
  /\ NotThere(p)
  /\ Descendants(p) = {}

(* stablePublishVerdict: only latest is consulted, and only a newer release holds
   a release back.                                                         *)
StableMayGo(p) ==
  /\ Publishing(p) \notin record.versions
  /\ \A v \in record.latest : v.channel = "stable" => v.source <= pub[p].source

MayGo(p) == IF pub[p].channel = "next" THEN NextMayGo(p) ELSE StableMayGo(p)

TakeLane(p) ==
  /\ lane = 0 /\ pub[p].pc = "queued" /\ OnMain(pub[p].source)
  /\ lane' = p
  /\ pub' = [pub EXCEPT ![p].pc = "verdict", ![p].checkout = Tip, ![p].reads = 0]
  /\ UNCHANGED <<record, accepted, mishaps>>

Verdict(p) ==
  /\ Holds(p, "verdict")
  /\ IF MayGo(p) THEN Turn(p, [pub[p] EXCEPT !.pc = "publish", !.unread = Unread])
                 ELSE Leave(p, "skipped")
  /\ UNCHANGED <<record, accepted, mishaps>>

(* npm refuses a version it took before, shown or not. *)
Taken(p) == Publishing(p) \in record.versions \cup Unread

(* A release's job ends with the publish; a pre-release's goes on to confirm. *)
Confirmed(p) == pub[p].channel = "next"
Publish(p) ==
  /\ Holds(p, "publish")
  /\ IF Taken(p) THEN Leave(p, "failed") /\ UNCHANGED accepted
     ELSE /\ accepted' = Append(accepted, Publishing(p))
          /\ IF Confirmed(p) THEN Turn(p, [pub[p] EXCEPT !.pc = "confirm"]) ELSE Leave(p, "published")
  /\ UNCHANGED <<record, mishaps>>

(* shownVerdict: behind when a descendant's pre-release is shown and next names
   none of the descendants'.                                               *)
Shown(p) ==
  IF Descendants(p) # {} /\ record.next \cap Descendants(p) = {} THEN "behind" ELSE "settled"

(* npmConfirm: one read; the lane is held until the record shows the version or
   the reads are spent.                                                    *)
Confirm(p) ==
  /\ Holds(p, "confirm")
  /\ IF Publishing(p) \in record.versions THEN Leave(p, Shown(p))
     ELSE IF pub[p].reads + 1 = ConfirmReads THEN Leave(p, "unsettled")
     ELSE Turn(p, [pub[p] EXCEPT !.reads = @ + 1])
  /\ UNCHANGED <<record, accepted, mishaps>>

-----------------------------------------------------------------------------
(* The registry, the runners, the people. *)

(* The registry shows the oldest publish it took: the version and the dist-tag
   together; the very first publish also takes latest.                     *)
Appear ==
  /\ accepted # <<>>
  /\ LET v == Head(accepted)
     IN  record' = [versions |-> record.versions \cup {v},
                    next |-> IF v.channel = "next" THEN {v} ELSE record.next,
                    latest |-> IF v.channel = "stable" \/ record.latest = {} THEN {v} ELSE record.latest]
  /\ accepted' = Tail(accepted)
  /\ UNCHANGED <<lane, pub, mishaps>>

NpmFault == mishaps > 0 /\ mishaps' = mishaps - 1

(* The runner dies, or a read fails for good; the lane is free again. *)
PublisherDies(p) ==
  /\ lane = p /\ NpmFault
  /\ Leave(p, "failed")
  /\ UNCHANGED <<record, accepted>>

(* npm exits non-zero although the registry took the publish. *)
PublishAnswerLost(p) ==
  /\ Holds(p, "publish") /\ ~Taken(p) /\ NpmFault
  /\ accepted' = Append(accepted, Publishing(p))
  /\ Leave(p, "failed")
  /\ UNCHANGED record

(* Somebody re-runs the job; it queues for the lane again. *)
Republish(p) ==
  /\ pub[p].pc = "over" /\ pub[p].said \cap {"failed", "behind"} # {}
  /\ pub' = [pub EXCEPT ![p].pc = "queued"]
  /\ UNCHANGED <<record, accepted, lane, mishaps>>

PublisherStep(p) ==
  \/ TakeLane(p) \/ Verdict(p) \/ Publish(p) \/ Confirm(p)
  \/ PublisherDies(p) \/ PublishAnswerLost(p) \/ Republish(p)
NpmNext == UNCHANGED main /\ (Appear \/ \E p \in DOMAIN pub : PublisherStep(p))

-----------------------------------------------------------------------------
(* Properties. *)

Ahead(w, v) == w.channel = v.channel /\ w.source > v.source

(* v was published by a run whose verdict could not see w: the registry had taken
   w and did not show it yet.                                              *)
BlindTo(v, w) == \E p \in DOMAIN pub : Publishing(p) = v /\ w \in pub[p].unread

(* A publisher of w left the lane before it saw w in the registry, and said so: a
   warning, or a red job.                                                  *)
LeftEarly(w) == \E p \in DOMAIN pub : Publishing(p) = w /\ pub[p].said \cap {"unsettled", "failed"} # {}

(* Whatever order the jobs run, rerun and die in, a dist-tag moves from a version
   to an older one of its channel only if the older one's publisher took its
   verdict while the registry had that very newer version and did not show it;
   and next, whose publishers confirm, only if the newer one's publisher had said
   that it left the lane early: a pre-release whose publishers all saw it shown is
   never displaced by an older one (nextPublishVerdict, stablePublishVerdict,
   npmConfirm).                                                            *)
ChannelsOnlyAdvance ==
  [][/\ \A w \in record.next, v \in record.next' : Ahead(w, v) => BlindTo(v, w) /\ LeftEarly(w)
     /\ \A w \in record.latest, v \in record.latest' : Ahead(w, v) => BlindTo(v, w)]_<<main, npmVars>>

(* The stronger promise of update-release.yml, "a verdict still holds when its
   publish lands", "so no release displaces a newer one from latest": no order of
   the releases' jobs moves latest back to an older release.               *)
NoReleaseDisplacesANewer ==
  [][\A w \in record.latest, v \in record.latest' : ~Ahead(w, v)]_<<main, npmVars>>
=============================================================================
