------------------------------ MODULE MCVisits ------------------------------
EXTENDS Visits
CONSTANTS f, g, plain, year, m1, m2
MCCodes == {f, g}
MCDetails == {plain, year}
MCSlots == {m1, m2}
MCStarts == {[c \in MCCodes |-> IF c = f THEN year ELSE None]}
=============================================================================
