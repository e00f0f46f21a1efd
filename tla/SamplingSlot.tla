----------------------------- MODULE SamplingSlot -----------------------------
(***************************************************************************)
(* What the sampling of an experiment promises, without sessions, rows or   *)
(* stale owners: on each mint of each evidence context there is one slot.   *)
(* It is taken before any work is done, given back by a refusal, or turned  *)
(* into one trajectory, and it is free again when that trajectory settles.  *)
(* A slot is only taken while the mint has had fewer than Cap samples.      *)
(***************************************************************************)
EXTENDS Naturals

CONSTANTS Scopes,  \* evidence contexts
          Mints,
          Cap      \* samples allowed on one mint

VARIABLES phase,   \* of each slot
          samples  \* trajectories ever opened on each mint

Slots == Scopes \X Mints

Init == phase = [x \in Slots |-> "free"] /\ samples = [m \in Mints |-> 0]

Take(w, m) ==
  /\ phase[<<w, m>>] = "free" /\ samples[m] < Cap
  /\ phase' = [phase EXCEPT ![<<w, m>>] = "reserved"]
  /\ UNCHANGED samples

GiveBack(w, m) ==
  /\ phase[<<w, m>>] = "reserved"
  /\ phase' = [phase EXCEPT ![<<w, m>>] = "free"]
  /\ UNCHANGED samples

Open(w, m) ==
  /\ phase[<<w, m>>] = "reserved"
  /\ phase' = [phase EXCEPT ![<<w, m>>] = "open"]
  /\ samples' = [samples EXCEPT ![m] = @ + 1]

Settle(w, m) ==
  /\ phase[<<w, m>>] = "open"
  /\ phase' = [phase EXCEPT ![<<w, m>>] = "free"]
  /\ UNCHANGED samples

Next ==
  \E w \in Scopes, m \in Mints :
    Take(w, m) \/ GiveBack(w, m) \/ Open(w, m) \/ Settle(w, m)

Spec == Init /\ [][Next]_<<phase, samples>>
=============================================================================
