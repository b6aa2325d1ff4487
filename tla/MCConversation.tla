---------------------------- MODULE MCConversation ----------------------------
EXTENDS Conversation

CONSTANTS Asks, Hints, Clears, Crashes, Faults, Busies

MCCost == [user |-> 1, call |-> 1, tool |-> 1, say |-> 4]
MCTimes == [ask |-> Asks, hint |-> Hints, clear |-> Clears, crash |-> Crashes,
            fault |-> Faults, busy |-> Busies]
Symmetry == Permutations(Procs)
=============================================================================
