---------------------------- MODULE MCScheduling ----------------------------
EXTENDS Scheduling

CONSTANTS e1, r1, d1, d2, last, halt, early, late

MCPayloadType ==
  [d \in Deliveries |-> IF d = last THEN "LAST" ELSE IF d = halt THEN "HALT" ELSE "DOCUMENT"]
MCParsingDate == [d \in Deliveries |-> IF d = d1 THEN early ELSE late]
=============================================================================
