----------------------------- MODULE MCLibrary -----------------------------
(* An instance of Library in which a file may be moved.                    *)
EXTENDS Library

CONSTANTS e1, e2

TwoEbooks == <<e1, e2>>

\* Every ebook and audiobook tell the same work.
AllSimilar == Contents \X Contents
=============================================================================
