-------------------------- MODULE MCDispatchSlots --------------------------
EXTENDS DispatchSlots
=============================================================================
