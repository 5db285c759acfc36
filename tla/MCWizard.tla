------------------------------ MODULE MCWizard ------------------------------
\* Wizard for TLC; its constants are numbers, given in the cfg.
EXTENDS Wizard
=============================================================================
