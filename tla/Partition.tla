------------------------------- MODULE Partition -------------------------------
(* A partition of a Kafka topic: what producers append to and consumers    *)
(* read from.                                                              *)
EXTENDS Integers, Sequences, FiniteSets, FiniteSetsExt

CONSTANT Events
VARIABLE log

ASSUME EventsAssumption == IsFiniteSet(Events)

OnLog(e) == \E i \in DOMAIN log : log[i] = e
=============================================================================
