------------------------ MODULE MCTranslationBatches ------------------------
EXTENDS TranslationBatches

\* No row, one batch, and two batches of which the second is not full, with
\* cleared rows before, between and after the others.
SomeSpeech == {{}, {1, 2}, {2, 4}, {1, 3, 4}}
=============================================================================
