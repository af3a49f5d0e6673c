---------------------------- MODULE MCActionPipeline ----------------------------
EXTENDS ActionPipeline, TLC

CONSTANTS r1, r2, alice

\* One player with two requests: both the reservation and the lock are contended.
MCCalls == Requests \X {"route", "resolver"}

MCUserOf == [r \in Requests |-> alice]

\* The player's requests are interchangeable (for the runs without liveness).
MCSymmetry == Permutations(Requests)
================================================================================
