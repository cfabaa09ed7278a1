------------------------------ MODULE MCLayout ------------------------------
EXTENDS Layout

MCTerminals == {<<17, 27>>, <<25, 44>>}
=============================================================================
