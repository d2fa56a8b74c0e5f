\* The wizard's pages requested in any order by one browser.
SPECIFICATION Spec
INVARIANT TypeOK
INVARIANT InOrderNoKeyError
