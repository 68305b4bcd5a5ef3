-------------------------- MODULE MCMetadataStore ---------------------------
EXTENDS MetadataStore

CONSTANTS f1, f2, f3, a, b, b1, b2

\* Two paths in one bucket and one in another.
MCBucketOf == [f \in Files |-> IF f = f3 THEN b2 ELSE b1]
=============================================================================
