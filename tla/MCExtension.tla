------------------------------ MODULE MCExtension ------------------------------
EXTENDS Extension
===============================================================================
